---- MODULE Spec2Model ----
(***************************************************************************)
(* Certainty-factor inference engine of the expert-system exercises.       *)
(* Two copies of the engine are modelled side by side:                     *)
(*   week3/test_project_flask/app.py   (definitions prefixed w3_)          *)
(*   week4/FlaskJson_project/app.py    (definitions prefixed w4_)          *)
(*                                                                         *)
(* Numbers.  Confidences, weights and certainty factors are fixed-point    *)
(* integers in hundredths (One = 1.0).  A score returned by evaluate_rule  *)
(* is the product of two such numbers, hence in units of 1/10000           *)
(* (One * One = 1.0).  round(x, 3) keeps the 1/10000 scale and returns a   *)
(* multiple of 10.  Python dicts are functions whose DOMAIN is the set of  *)
(* keys; where insertion order matters the dict is a sequence of entries.  *)
(***************************************************************************)
EXTENDS Integers, Sequences, FiniteSets, TLC

VARIABLES
    PARENT,       \* taxonomy.get("parent", {}): concept -> parent concept
    FACT_VALUE,   \* fact id -> baseline boolean
    rules,        \* the rule list of the knowledge base
    req,          \* the HTTP request handed to infer
    loc3,         \* week3's infer: its local variables when it ended
    resp3,        \* what week3's infer answered (NoneYet before the call)
    loc4,         \* week4's infer: its local variables when it ended
    resp4,        \* what week4's infer answered
    rule,         \* evaluate_rule harness: the rule argument
    obs_conf,     \* evaluate_rule / expand harness: the confidence map argument
    obs_order,    \* expand harness: insertion order of obs_conf's keys
    ev3,          \* result of week3's evaluate_rule
    ev4,          \* result of week4's evaluate_rule
    xp3,          \* result of week3's expand_observation
    xp4,          \* result of week4's expand_observations
    wcopy,        \* ancestors walk: which copy's generator runs
    concept,      \* ancestors walk: the argument
    cur,          \* ancestors walk: local cur
    seen,         \* ancestors walk: local seen
    out,          \* ancestors walk: identifiers yielded so far
    wpc,          \* ancestors walk: "run" until the generator is exhausted, then "done"
    facts,        \* week4: the fact list of the knowledge base
    facts_json,   \* week4: content of data/facts.json
    rules_json,   \* week4: content of data/rules.json
    crud_resp,    \* week4: how the last fact / rule handler ended
    ipc,          \* concurrent infer (week4): the line the request thread stands on
    fv_read,      \* concurrent infer: the FACT_VALUE table the thread iterated
    it_idx,       \* concurrent infer: index of the list iterator of "for rule in rules"
    it_seen,      \* concurrent infer: the rules the loop has been handed
    cpc,          \* concurrent handler (week4): the line the other thread stands on
    cnew,         \* concurrent handler: its local new_rules / new_facts
    kb_old,       \* the knowledge base before the concurrent handler began
    call3,        \* repeated calls: request and set order of week3's latest call
    call4,        \* repeated calls: request and set order of week4's latest call
    prev3         \* repeated calls: week3's call before the latest one

vars == <<PARENT, FACT_VALUE, rules, req, loc3, resp3, loc4, resp4, rule, obs_conf,
          obs_order, ev3, ev4, xp3, xp4, wcopy, concept, cur, seen, out, wpc,
          facts, facts_json, rules_json, crud_resp,
          ipc, fv_read, it_idx, it_seen, cpc, cnew, kb_old, call3, call4, prev3>>

kbVars   == <<PARENT, FACT_VALUE, rules>>
inferVars == <<req, loc3, resp3, loc4, resp4>>
evalVars == <<rule, ev3, ev4>>
expandVars == <<obs_order, xp3, xp4>>
walkVars == <<wcopy, concept, cur, seen, out, wpc>>
crudVars == <<facts, facts_json, rules_json, crud_resp>>
concVars == <<ipc, fv_read, it_idx, it_seen, cpc, cnew, kb_old>>
histVars == <<call3, call4, prev3>>

-----------------------------------------------------------------------------
(* Fixed-point scale and the universe of identifiers.                       *)

\* 1.0 in hundredths: the upper clamp of week3's clamp01.
One == 100
\* 0.1 in hundredths: the upper clamp week4's clamp01 uses.
Tenth == 10

Concepts == {"cough", "fever", "respiratory"}
\* sorted() on concept ids: lexical order of the identifiers above.
SortedConcepts == <<"cough", "fever", "respiratory">>
Conclusions == {"cold", "flu"}

\* Bounds of the model.
MaxConds == 3     \* longest condition list of a rule
MaxRules == 2     \* longest rule list of a knowledge base
MaxTokens == 2    \* longest comma-separated query parameter

-----------------------------------------------------------------------------
(* Python helpers.                                                          *)

Max(a, b) == IF a >= b THEN a ELSE b
Min(a, b) == IF a <= b THEN a ELSE b

EmptyMap == [k \in {} |-> 0]

\* dict.get(k, default)
Get(d, k, default) == IF k \in DOMAIN d THEN d[k] ELSE default

\* d[k] = v on a dict
Put(d, k, v) == [x \in DOMAIN d \cup {k} |-> IF x = k THEN v ELSE d[x]]

Range(s) == {s[i] : i \in DOMAIN s}

\* all sequences of length <= n over S
SeqsUpTo(S, n) == UNION {[1..k -> S] : k \in 0..n}

\* all orders in which the elements of a set can be iterated
Orders(S) == {s \in [1..Cardinality(S) -> S] : Range(s) = S}

\* A value that float() is applied to: a number, or something float() rejects.
Num(v) == [num |-> TRUE, v |-> v]
NotANumber == [num |-> FALSE, v |-> 0]

\* min() of a non-empty list of numbers
RECURSIVE MinOfSeq(_)
MinOfSeq(s) ==
    IF Len(s) = 1 THEN s[1] ELSE Min(s[1], MinOfSeq(Tail(s)))

-----------------------------------------------------------------------------
(* clamp01                                                                  *)

\* mutant of w3_clamp01: max(0.0, float(x)), no upper clamp
w3_clamp01_no_upper(x) ==
    IF x.num THEN Max(0, x.v) ELSE 0

\* week3: max(0.0, min(1.0, float(x))); 0.0 when float(x) raises
w3_clamp01(x) ==
    IF x.num THEN Max(0, Min(One, x.v)) ELSE 0

\* week4: max(0.0, min(0.1, float(x))); 0.0 when float(x) raises
w4_clamp01(x) ==
    IF x.num THEN Max(0, Min(Tenth, x.v)) ELSE 0

-----------------------------------------------------------------------------
(* evaluate_rule: (fires, score), score in units of 1/10000                 *)

\* the scan "for cid in cond_ids": cond_scores, or "stop" at the first c <= 0
RECURSIVE w3_cond_scores(_, _)
w3_cond_scores(cond_ids, conf) ==
    IF cond_ids = <<>> THEN [stop |-> FALSE, scores |-> <<>>]
    ELSE LET c == w3_clamp01(Num(Get(conf, Head(cond_ids), 0)))
         IN  IF c <= 0 THEN [stop |-> TRUE, scores |-> <<>>]
             ELSE LET rest == w3_cond_scores(Tail(cond_ids), conf)
                  IN  [stop |-> rest.stop, scores |-> <<c>> \o rest.scores]

\* mutant of w3_evaluate_rule: "continue" instead of "return (False, 0.0)"
\* on a condition without confidence
w3_evaluate_rule_skips(r, conf) ==
    LET cond_ids == Get(r, "conditions", <<>>)
        cf == w3_clamp01(Num(Get(r, "certainty", One)))
        pos == SelectSeq([i \in 1..Len(cond_ids) |->
                            w3_clamp01(Num(Get(conf, cond_ids[i], 0)))],
                         LAMBDA c : c > 0)
    IN  IF pos = <<>> THEN [fires |-> FALSE, score |-> 0]
        ELSE [fires |-> TRUE, score |-> MinOfSeq(pos) * cf]

w3_evaluate_rule(r, conf) ==
    LET cond_ids == Get(r, "conditions", <<>>)
    IN  IF cond_ids = <<>> THEN [fires |-> FALSE, score |-> 0]
        ELSE LET scan == w3_cond_scores(cond_ids, conf)
             IN  IF scan.stop THEN [fires |-> FALSE, score |-> 0]
                 ELSE LET base == MinOfSeq(scan.scores)
                          cf == w3_clamp01(Num(Get(r, "certainty", One)))
                      IN  [fires |-> TRUE, score |-> base * cf]

RECURSIVE w4_cond_scores(_, _)
w4_cond_scores(cond_ids, conf) ==
    IF cond_ids = <<>> THEN [stop |-> FALSE, scores |-> <<>>]
    ELSE LET c == w4_clamp01(Num(Get(conf, Head(cond_ids), 0)))
         IN  IF c <= 0 THEN [stop |-> TRUE, scores |-> <<>>]
             ELSE LET rest == w4_cond_scores(Tail(cond_ids), conf)
                  IN  [stop |-> rest.stop, scores |-> <<c>> \o rest.scores]

w4_evaluate_rule(r, conf) ==
    LET cond_ids == Get(r, "conditions", <<>>)
    IN  IF cond_ids = <<>> THEN [fires |-> FALSE, score |-> 0]
        ELSE LET scan == w4_cond_scores(cond_ids, conf)
             IN  IF scan.stop THEN [fires |-> FALSE, score |-> 0]
                 ELSE LET base == MinOfSeq(scan.scores)
                          cf == w4_clamp01(Num(Get(r, "certainty", One)))
                      IN  [fires |-> TRUE, score |-> base * cf]

-----------------------------------------------------------------------------
(* ancestors: a generator over the parent chain                             *)

\* mutant of w3_ancestors_continues: the walk without its "seen" guard
w3_ancestors_continues_unguarded(P, c, sn) == c \in DOMAIN P

\* the loop test: while cur in PARENT and PARENT[cur] not in seen
w3_ancestors_continues(P, c, sn) == c \in DOMAIN P /\ P[c] \notin sn

w4_ancestors_continues(P, c, sn) == c \in DOMAIN P /\ P[c] \notin sn

\* mutant of w3_ancestors_parent: yields the node the walk stands on
w3_ancestors_parent_self(P, c) == c

\* parent = PARENT[cur], the identifier the loop body yields
w3_ancestors_parent(P, c) == P[c]

w4_ancestors_parent(P, c) == P[c]

\* list(ancestors(concept)): everything the generator yields, in order
RECURSIVE w3_ancestors_from(_, _, _)
w3_ancestors_from(P, c, sn) ==
    IF w3_ancestors_continues(P, c, sn)
    THEN LET parent == w3_ancestors_parent(P, c)
         IN  <<parent>> \o w3_ancestors_from(P, parent, sn \cup {parent})
    ELSE <<>>

w3_ancestors(P, c) == w3_ancestors_from(P, c, {})

RECURSIVE w4_ancestors_from(_, _, _)
w4_ancestors_from(P, c, sn) ==
    IF w4_ancestors_continues(P, c, sn)
    THEN LET parent == w4_ancestors_parent(P, c)
         IN  <<parent>> \o w4_ancestors_from(P, parent, sn \cup {parent})
    ELSE <<>>

w4_ancestors(P, c) == w4_ancestors_from(P, c, {})

-----------------------------------------------------------------------------
(* expand_observation (week3) / expand_observations (week4).  The result is *)
(* [status, value]: status "ok" with the returned map, or the exception the *)
(* call raised.  items is list(obs_conf.items()) as the keys in dict order. *)

Returned(v) == [status |-> "ok", value |-> v]
Raised(e) == [status |-> e, value |-> EmptyMap]

\* mutant of w3_expand_step: expanded[anc] = c, the last writer wins
w3_expand_step_overwrites(expanded, anc, c) == Put(expanded, anc, c)

\* mutant of w3_expand_step: expanded.setdefault(anc, c), the first writer wins
w3_expand_step_first_wins(expanded, anc, c) ==
    IF anc \in DOMAIN expanded THEN expanded ELSE Put(expanded, anc, c)

\* expanded[anc] = max(expanded.get(anc, 0.0), c)
w3_expand_step(expanded, anc, c) == Put(expanded, anc, Max(Get(expanded, anc, 0), c))

\* for anc in ancestors(fid): expanded[anc] = max(expanded.get(anc, 0.0), c)
RECURSIVE w3_expand_ancestors(_, _, _)
w3_expand_ancestors(expanded, ancs, c) ==
    IF ancs = <<>> THEN expanded
    ELSE w3_expand_ancestors(w3_expand_step(expanded, Head(ancs), c), Tail(ancs), c)

\* for fid, c in list(obs_conf.items()): ...
RECURSIVE w3_expand_items(_, _, _, _)
w3_expand_items(P, conf, items, expanded) ==
    IF items = <<>> THEN expanded
    ELSE w3_expand_items(P, conf, Tail(items),
            w3_expand_ancestors(expanded, w3_ancestors(P, Head(items)),
                                conf[Head(items)]))

w3_expand_observation(P, conf, items) ==
    IF DOMAIN P = {} THEN Returned(conf)
    ELSE Returned(w3_expand_items(P, conf, items, conf))

\* mutant of w3_expand_argument: expanded = obs_conf, the loop writes into
\* the caller's dict
w3_expand_argument_aliased(P, conf, items) ==
    IF DOMAIN P = {} THEN conf ELSE w3_expand_items(P, conf, items, conf)

\* the caller's dict when the call has ended: the loop writes into
\* expanded = dict(obs_conf), a new dict, and nothing else is written
w3_expand_argument(P, conf, items) == conf

\* week4's loop body is expanded[anc] = max(expanded.get(anc, 0,0), c):
\* dict.get with three arguments raises TypeError the first time it runs
RECURSIVE w4_expand_items(_, _, _, _)
w4_expand_items(P, conf, items, expanded) ==
    IF items = <<>> THEN Returned(expanded)
    ELSE IF w4_ancestors(P, Head(items)) # <<>> THEN Raised("TypeError")
         ELSE w4_expand_items(P, conf, Tail(items), expanded)

w4_expand_observations(P, conf, items) ==
    IF DOMAIN P = {} THEN Returned(conf)
    ELSE w4_expand_items(P, conf, items, conf)

\* the caller's dict when the call has ended or raised: week4 also writes
\* into expanded = dict(obs_conf)
w4_expand_argument(P, conf, items) == conf

-----------------------------------------------------------------------------
(* The knowledge base as loaded from data/facts.json.                       *)

\* a fact record; the optional "tags" are left out
Fact(fid, description, value) == [id |-> fid, description |-> description, value |-> value]

\* FACT_VALUE = {f["id"]: bool(f.get("value", False)) for f in facts}: of
\* two facts with one id the later one gives the value (week3 reads
\* f["value"], the same on a list that passed facts_array_schema)
w4_fact_value(fs) ==
    [fid \in {fs[i].id : i \in 1..Len(fs)} |->
        LET last == CHOOSE i \in 1..Len(fs) :
                        fs[i].id = fid /\ \A j \in 1..Len(fs) : fs[j].id = fid => j <= i
        IN  Get(fs[last], "value", FALSE)]

\* a fact list over the three concepts with the given baseline values
FactList(values) ==
    [i \in 1..Len(values) |-> Fact(SortedConcepts[i], "", values[i])]

-----------------------------------------------------------------------------
(* infer: request parsing                                                   *)
(*                                                                          *)
(* A request is [method, args, body].  args holds the query parameters that *)
(* are present: "facts" and "weights" as the list of their comma-separated  *)
(* pieces (the empty list for an empty string), "useTrueFacts" as text.     *)
(* body is the JSON object of the request ({} when there is none), with the *)
(* optional keys "facts", "weights" and "useTrueFacts".  A piece of the     *)
(* weights parameter is [colon, fid, conf]: whether it holds a ":", and the *)
(* texts on both sides of the first one.                                    *)

\* str.strip() on the pieces the requests are built from
Strip(t) == IF t = " fever " THEN "fever" ELSE t

\* str.lower() on the texts the requests are built from
Lower(t) == IF t = "True" THEN "true" ELSE t

\* set(f.strip() for f in facts_param.split(",") if f.strip())
ParseFactsParam(pieces) == {Strip(t) : t \in {x \in Range(pieces) : Strip(x) # ""}}

\* the loop over weights_param.split(","): pieces without ":" are skipped,
\* so are pieces whose number float() rejects (except ValueError: pass)
RECURSIVE ParseWeightsParam(_, _)
ParseWeightsParam(pieces, weights) ==
    IF pieces = <<>> THEN weights
    ELSE LET pair == Head(pieces)
         IN  ParseWeightsParam(Tail(pieces),
                IF pair.colon /\ pair.conf.num
                THEN Put(weights, Strip(pair.fid), Num(pair.conf.v))
                ELSE weights)

\* the else branch of "if weights_param:", which reads the JSON body
ParseBody(payload) ==
    [observed_ids |-> Range(Get(payload, "facts", <<>>)),
     weights |-> Get(payload, "weights", EmptyMap),
     use_true_facts |-> Get(payload, "useTrueFacts", FALSE)]

\* week3, GET: use_true_facts compares the bound method .lower (not its
\* result) with "true", which is False for every request
w3_parse(r) ==
    LET weights_param == Get(r.args, "weights", <<>>)
    IN  IF weights_param # <<>>
        THEN [observed_ids |-> ParseFactsParam(Get(r.args, "facts", <<>>)),
              weights |-> ParseWeightsParam(weights_param, EmptyMap),
              use_true_facts |-> FALSE]
        ELSE ParseBody(r.body)

\* week4, GET: .lower() == "true"
w4_parse(r) ==
    LET weights_param == Get(r.args, "weights", <<>>)
    IN  IF weights_param # <<>>
        THEN [observed_ids |-> ParseFactsParam(Get(r.args, "facts", <<>>)),
              weights |-> ParseWeightsParam(weights_param, EmptyMap),
              use_true_facts |-> Lower(Get(r.args, "useTrueFacts", "false")) = "true"]
        ELSE ParseBody(r.body)

\* if use_true_facts: observed_ids.update(fid for fid, val in FACT_VALUE.items() if val is True)
w3_observed_ids(p, FV) ==
    IF p.use_true_facts
    THEN p.observed_ids \cup {fid \in DOMAIN FV : FV[fid] = TRUE}
    ELSE p.observed_ids

w4_observed_ids(p, FV) ==
    IF p.use_true_facts
    THEN p.observed_ids \cup {fid \in DOMAIN FV : FV[fid] = TRUE}
    ELSE p.observed_ids

\* for fid in observed_ids: obs_conf[fid] = clamp01(weights.get(fid, 1.0))
w3_initial_conf(observed, weights) ==
    [fid \in observed |-> w3_clamp01(Get(weights, fid, Num(One)))]

w4_initial_conf(observed, weights) ==
    [fid \in observed |-> w4_clamp01(Get(weights, fid, Num(One)))]

-----------------------------------------------------------------------------
(* infer: rule evaluation, aggregation, ranking                             *)

\* round(x, 3) on the 1/10000 scale: the nearest multiple of 10, a tie going
\* to the even thousandth (no product of the confidences and certainties
\* drawn below ends in 5, so no score of the model is a tie)
round3(x) ==
    LET q == x \div 10
        r == x % 10
    IN  10 * (IF r < 5 THEN q
              ELSE IF r > 5 THEN q + 1
              ELSE IF q % 2 = 0 THEN q ELSE q + 1)

\* mutant of FiredEntry: the score is reported as evaluate_rule returned it
FiredEntry_unrounded(r, score) ==
    [rule |-> r.id, conclusion |-> r.conclusion, score |-> score,
     explain |-> Get(r, "explain", ""), conditions |-> Get(r, "conditions", <<>>)]

\* the dict appended to fired
FiredEntry(r, score) ==
    [rule |-> r.id, conclusion |-> r.conclusion, score |-> round3(score),
     explain |-> Get(r, "explain", ""), conditions |-> Get(r, "conditions", <<>>)]

\* for rule in rules: ... if fires and score > 0.0: fired.append({...})
RECURSIVE w3_fired(_, _)
w3_fired(rls, conf) ==
    IF rls = <<>> THEN <<>>
    ELSE LET e == w3_evaluate_rule(Head(rls), conf)
         IN  (IF e.fires /\ e.score > 0 THEN <<FiredEntry(Head(rls), e.score)>> ELSE <<>>)
             \o w3_fired(Tail(rls), conf)

RECURSIVE w4_fired(_, _)
w4_fired(rls, conf) ==
    IF rls = <<>> THEN <<>>
    ELSE LET e == w4_evaluate_rule(Head(rls), conf)
         IN  (IF e.fires /\ e.score > 0 THEN <<FiredEntry(Head(rls), e.score)>> ELSE <<>>)
             \o w4_fired(Tail(rls), conf)

\* an insertion-ordered dict as the list of its [k, v] entries
OdHas(od, k) == \E i \in 1..Len(od) : od[i].k = k
OdGet(od, k, default) ==
    IF OdHas(od, k) THEN od[CHOOSE i \in 1..Len(od) : od[i].k = k].v ELSE default
OdPut(od, k, v) ==
    IF OdHas(od, k)
    THEN [i \in 1..Len(od) |-> IF od[i].k = k THEN [k |-> k, v |-> v] ELSE od[i]]
    ELSE Append(od, [k |-> k, v |-> v])

\* k = r["conclusion"]; aggregate[k] = max(aggregate.get(k, 0.0), r["score"])
w3_aggregate_step(aggregate, r) ==
    OdPut(aggregate, r.conclusion, Max(OdGet(aggregate, r.conclusion, 0), r.score))

RECURSIVE w3_aggregate(_, _)
w3_aggregate(fired, aggregate) ==
    IF fired = <<>> THEN aggregate
    ELSE w3_aggregate(Tail(fired), w3_aggregate_step(aggregate, Head(fired)))

\* week4: k = r["condition"]; a fired entry has no such key, so the first
\* iteration raises KeyError
w4_aggregate(fired, aggregate) ==
    IF fired = <<>> THEN Returned(aggregate) ELSE Raised("KeyError")

\* sorted(..., key=score, reverse=True): a stable sort, so entries of equal
\* score keep their order; x goes behind every entry whose score is >= its own
InsertByScore(sorted, x, behindEqual) ==
    LET ahead == {i \in 1..Len(sorted) :
                    \A j \in 1..i : IF behindEqual THEN sorted[j].score >= x.score
                                    ELSE sorted[j].score > x.score}
        n == Cardinality(ahead)
    IN  SubSeq(sorted, 1, n) \o <<x>> \o SubSeq(sorted, n + 1, Len(sorted))

RECURSIVE SortByScore(_, _, _)
SortByScore(items, sorted, behindEqual) ==
    IF items = <<>> THEN sorted
    ELSE SortByScore(Tail(items), InsertByScore(sorted, Head(items), behindEqual),
                     behindEqual)

\* mutant of w3_ranked: ascending sort, then reversed, which reverses ties
w3_ranked_reversed_ties(aggregate) ==
    SortByScore([i \in 1..Len(aggregate) |->
                    [conclusion |-> aggregate[i].k, score |-> round3(aggregate[i].v)]],
                <<>>, FALSE)

\* ranked = sorted([{"conclusion": k, "score": round(v, 3)} ...], reverse=True)
w3_ranked(aggregate) ==
    SortByScore([i \in 1..Len(aggregate) |->
                    [conclusion |-> aggregate[i].k, score |-> round3(aggregate[i].v)]],
                <<>>, TRUE)

w4_ranked(aggregate) ==
    SortByScore([i \in 1..Len(aggregate) |->
                    [conclusion |-> aggregate[i].k, score |-> round3(aggregate[i].v)]],
                <<>>, TRUE)

\* [{"id": k, "confidence": v} for k, v in sorted(obs_conf.items())]
Observations(conf) ==
    LET ids == SelectSeq(SortedConcepts, LAMBDA k : k \in DOMAIN conf)
    IN  [i \in 1..Len(ids) |-> [id |-> ids[i], confidence |-> conf[ids[i]]]]

-----------------------------------------------------------------------------
(* infer: the handler.  It yields [loc, resp]: the local variables when the *)
(* handler ended and the outcome, a 200 response with the three lists or    *)
(* the exception that ended the request.                                    *)

Locals(reached, observed, weights, use, conf, fired) ==
    [reached |-> reached, observed_ids |-> observed, weights |-> weights,
     use_true_facts |-> use, obs_conf |-> conf, fired |-> fired]

NoLocals == Locals("entry", {}, EmptyMap, FALSE, EmptyMap, <<>>)

Response(fired, ranked, conf) ==
    [status |-> "200", matched_rules |-> fired, ranked_conclusions |-> ranked,
     observations |-> Observations(conf)]

Failure(e) ==
    [status |-> e, matched_rules |-> <<>>, ranked_conclusions |-> <<>>,
     observations |-> <<>>]

\* week3.  The whole body sits under "if request.method == 'GET'": any other
\* method falls off the end, the view returns None and Flask raises TypeError.
w3_infer(P, FV, rls, r, order) ==
    IF r.method # "GET" THEN [loc |-> NoLocals, resp |-> Failure("TypeError")]
    ELSE LET p == w3_parse(r)
             observed == w3_observed_ids(p, FV)
             conf == w3_initial_conf(observed, p.weights)
             expanded == w3_expand_observation(P, conf, order).value
             fired == w3_fired(rls, expanded)
             ranked == w3_ranked(w3_aggregate(fired, <<>>))
         IN  [loc |-> Locals("return", observed, p.weights, p.use_true_facts, conf, fired),
              resp |-> Response(fired, ranked, expanded)]

w4_infer(P, FV, rls, r, order) ==
    IF r.method # "GET" THEN [loc |-> NoLocals, resp |-> Failure("TypeError")]
    ELSE LET p == w4_parse(r)
             observed == w4_observed_ids(p, FV)
             conf == w4_initial_conf(observed, p.weights)
             ex == w4_expand_observations(P, conf, order)
         IN  IF ex.status # "ok"
             THEN [loc |-> Locals("expand", observed, p.weights, p.use_true_facts,
                                  conf, <<>>),
                   resp |-> Failure(ex.status)]
             ELSE LET fired == w4_fired(rls, ex.value)
                      agg == w4_aggregate(fired, <<>>)
                  IN  IF agg.status # "ok"
                      THEN [loc |-> Locals("aggregate", observed, p.weights,
                                           p.use_true_facts, conf, fired),
                            resp |-> Failure(agg.status)]
                      ELSE [loc |-> Locals("return", observed, p.weights,
                                           p.use_true_facts, conf, fired),
                            resp |-> Response(fired, w4_ranked(agg.value), ex.value)]

-----------------------------------------------------------------------------
(* Harness for evaluate_rule: the arguments are drawn in Init, each copy's  *)
(* function is applied once.                                                *)

\* confidences a map handed to evaluate_rule may hold (hundredths)
MapConfs == {0, 30, 60, 90, 150}
\* certainty factors a rule may carry (hundredths)
Certainties == {0, 50, 150}

\* rule records as evaluate_rule may receive them: "conditions" and
\* "certainty" are optional keys
EvalRules ==
    LET conds == SeqsUpTo(Concepts, MaxConds)
    IN  {[id |-> "r1", conclusion |-> "flu"]}
        \cup {[id |-> "r1", conclusion |-> "flu", conditions |-> cs] : cs \in conds}
        \cup {[id |-> "r1", conclusion |-> "flu", conditions |-> cs, certainty |-> cf] :
                cs \in conds, cf \in Certainties}

ConfMaps(vals) == UNION {[S -> vals] : S \in SUBSET Concepts}

\* the value of a result variable before its call has returned
NoneYet == [status |-> "none"]

\* no data files: empty lists, an empty taxonomy
NoFacts == facts = <<>> /\ facts_json = <<>> /\ FACT_VALUE = EmptyMap
NoRules == rules = <<>> /\ rules_json = <<>>
IdleKb == PARENT = EmptyMap /\ NoFacts /\ NoRules
IdleInfer == /\ req = NoneYet /\ loc3 = NoneYet /\ resp3 = NoneYet
             /\ loc4 = NoneYet /\ resp4 = NoneYet
IdleEval == rule = NoneYet /\ ev3 = NoneYet /\ ev4 = NoneYet
IdleExpand == obs_order = <<>> /\ xp3 = NoneYet /\ xp4 = NoneYet
IdleWalk == /\ wcopy = "none" /\ concept = "none" /\ cur = "none"
            /\ seen = {} /\ out = <<>> /\ wpc = "idle"
IdleCrud == crud_resp = "none"
IdleConc == /\ ipc = "idle" /\ fv_read = NoneYet /\ it_idx = 0 /\ it_seen = <<>>
            /\ cpc = "idle" /\ cnew = NoneYet /\ kb_old = NoneYet
IdleHist == call3 = NoneYet /\ call4 = NoneYet /\ prev3 = NoneYet

InitEval ==
    /\ rule \in EvalRules
    /\ obs_conf \in ConfMaps(MapConfs)
    /\ ev3 = NoneYet /\ ev4 = NoneYet
    /\ IdleKb /\ IdleInfer /\ IdleExpand /\ IdleWalk /\ IdleCrud /\ IdleConc /\ IdleHist

EvaluateRule3 ==
    /\ rule # NoneYet /\ ev3 = NoneYet
    /\ ev3' = w3_evaluate_rule(rule, obs_conf)
    /\ UNCHANGED <<kbVars, crudVars, concVars, histVars,
                   inferVars, rule, obs_conf, ev4, expandVars, walkVars>>

EvaluateRule4 ==
    /\ rule # NoneYet /\ ev4 = NoneYet
    /\ ev4' = w4_evaluate_rule(rule, obs_conf)
    /\ UNCHANGED <<kbVars, crudVars, concVars, histVars,
                   inferVars, rule, obs_conf, ev3, expandVars, walkVars>>

NextEval == EvaluateRule3 \/ EvaluateRule4

SpecEval == InitEval /\ [][NextEval]_vars

\* clamp to [0.0, 1.0] as the specification of the engine states it
ClampUnit(v) == Max(0, Min(One, v))

HasConditions(r) == "conditions" \in DOMAIN r /\ r.conditions # <<>>

\* every condition of r has a confidence > 0 in conf (0.0 when absent)
AllPositive(r, conf) ==
    \A i \in 1..Len(r.conditions) : Get(conf, r.conditions[i], 0) > 0

\* minimum over r's conditions of the map confidence clamped to [0,1]
WeakestLink(r, conf) ==
    MinOfSeq([i \in 1..Len(r.conditions) |->
                ClampUnit(Get(conf, r.conditions[i], 0))])

WeakestLinkResult(r, conf) ==
    [fires |-> TRUE,
     score |-> WeakestLink(r, conf) * ClampUnit(Get(r, "certainty", One))]

\* C1 (as claimed, both copies): when every condition of the rule has a
\* confidence > 0, evaluate_rule returns (True, m * cf) with m the minimum
\* condition confidence clamped to [0,1] and cf the certainty clamped to
\* [0,1] (1.0 when the rule has none).  Week4's clamp01 caps at 0.1, so its
\* copy returns a different score.
C1_WeakestLinkBothCopies ==
    (HasConditions(rule) /\ AllPositive(rule, obs_conf)) =>
        /\ ev3 # NoneYet => ev3 = WeakestLinkResult(rule, obs_conf)
        /\ ev4 # NoneYet => ev4 = WeakestLinkResult(rule, obs_conf)

\* the part of C1 that week3's copy satisfies
C1_WeakestLinkWeek3 ==
    (HasConditions(rule) /\ AllPositive(rule, obs_conf) /\ ev3 # NoneYet) =>
        ev3 = WeakestLinkResult(rule, obs_conf)

\* the scoring example of the specification: confidences 0.9, 0.3, 0.6 and
\* certainty 0.5 give 0.15 in week3 and 0.01 in week4
C1_ExampleReached ==
    /\ HasConditions(rule)
    /\ rule.conditions = <<"cough", "fever", "respiratory">>
    /\ obs_conf = [cough |-> 90, fever |-> 30, respiratory |-> 60]
    /\ Get(rule, "certainty", One) = 50
    /\ ev3 = [fires |-> TRUE, score |-> 1500]
    /\ ev4 = [fires |-> TRUE, score |-> 100]

\* should fire: at least one condition, every one with positive confidence
ShouldFire(r, conf) ==
    /\ HasConditions(r)
    /\ \A i \in 1..Len(r.conditions) :
          ClampUnit(Get(conf, r.conditions[i], 0)) > 0

\* C2: evaluate_rule returns fires = True iff the rule has at least one
\* condition and every condition's confidence in the map (0.0 when absent)
\* is strictly positive after clamping; otherwise it returns (False, 0.0),
\* whatever the certainty factor.
C2_FiresIffAllPositive ==
    /\ ev3 # NoneYet =>
         /\ ev3.fires <=> ShouldFire(rule, obs_conf)
         /\ ~ev3.fires => ev3 = [fires |-> FALSE, score |-> 0]
    /\ ev4 # NoneYet =>
         /\ ev4.fires <=> ShouldFire(rule, obs_conf)
         /\ ~ev4.fires => ev4 = [fires |-> FALSE, score |-> 0]

\* the AND gate: conditions [cough, fever], cough has confidence 0.9, fever
\* is absent, certainty 1.5 (clamped to the maximum): neither copy fires
C2_AndGateReached ==
    /\ HasConditions(rule)
    /\ rule.conditions = <<"cough", "fever">>
    /\ obs_conf = [cough |-> 90]
    /\ Get(rule, "certainty", One) = 150
    /\ ev3 = [fires |-> FALSE, score |-> 0]
    /\ ev4 = [fires |-> FALSE, score |-> 0]

-----------------------------------------------------------------------------
(* Harness for expansion: taxonomy, observation map and its dict order are  *)
(* drawn in Init, each copy's function is applied once.                     *)

\* every parent mapping over the concepts, cycles and self-parents included
Taxonomies == UNION {[S -> Concepts] : S \in SUBSET Concepts}

\* confidences of an observation map (outputs of clamp01, hundredths)
ObsConfs == {0, 40, 90}

InitExpand ==
    /\ PARENT \in Taxonomies
    /\ obs_conf \in ConfMaps(ObsConfs)
    /\ obs_order \in Orders(DOMAIN obs_conf)
    /\ xp3 = NoneYet /\ xp4 = NoneYet
    /\ NoFacts /\ NoRules
    /\ IdleInfer /\ IdleEval /\ IdleWalk /\ IdleCrud /\ IdleConc /\ IdleHist

ExpandObservation3 ==
    /\ xp3 = NoneYet
    /\ xp3' = w3_expand_observation(PARENT, obs_conf, obs_order)
    /\ obs_conf' = w3_expand_argument(PARENT, obs_conf, obs_order)
    /\ UNCHANGED <<kbVars, crudVars, concVars, histVars,
                   inferVars, evalVars, obs_order, xp4, walkVars>>

ExpandObservations4 ==
    /\ xp4 = NoneYet
    /\ xp4' = w4_expand_observations(PARENT, obs_conf, obs_order)
    /\ obs_conf' = w4_expand_argument(PARENT, obs_conf, obs_order)
    /\ UNCHANGED <<kbVars, crudVars, concVars, histVars,
                   inferVars, evalVars, obs_order, xp3, walkVars>>

NextExpand == ExpandObservation3 \/ ExpandObservations4

SpecExpand == InitExpand /\ [][NextExpand]_vars

\* the ancestor relation of a parent mapping, by closure: everything
\* reached from S in 1..n parent steps
RECURSIVE UpClosure(_, _, _)
UpClosure(P, S, n) ==
    IF n = 0 THEN {}
    ELSE LET up == {P[x] : x \in S \cap DOMAIN P}
         IN  up \cup UpClosure(P, up, n - 1)

AncestorSet(P, c) == UpClosure(P, {c}, Cardinality(DOMAIN P))

MaxOfSet(S) == CHOOSE m \in S : \A x \in S : x <= m

\* the map C3 describes for taxonomy P and observations conf
ExpandedAsSpecified(P, conf) ==
    [k \in DOMAIN conf \cup UNION {AncestorSet(P, o) : o \in DOMAIN conf} |->
        MaxOfSet({Get(conf, k, 0)} \cup
                 {conf[o] : o \in {x \in DOMAIN conf : k \in AncestorSet(P, x)}})]

\* C3 (as claimed, both copies): through a non-empty taxonomy, expansion
\* returns the map whose keys are the observed concepts plus all their
\* ancestors, each key holding the maximum of its own observed confidence
\* (0.0 when not observed) and the confidences of the observed concepts
\* below it.  Week4's copy raises TypeError as soon as an observed concept
\* has an ancestor.
C3_ExpansionBothCopies ==
    DOMAIN PARENT # {} =>
        /\ xp3 # NoneYet => xp3 = Returned(ExpandedAsSpecified(PARENT, obs_conf))
        /\ xp4 # NoneYet => xp4 = Returned(ExpandedAsSpecified(PARENT, obs_conf))

\* the part of C3 that week3's copy satisfies
C3_ExpansionWeek3 ==
    (DOMAIN PARENT # {} /\ xp3 # NoneYet) =>
        xp3 = Returned(ExpandedAsSpecified(PARENT, obs_conf))

\* two observed concepts under one parent: week3 gives the parent the
\* larger confidence, week4 raises
C3_SharedParentReached ==
    /\ PARENT = [cough |-> "respiratory", fever |-> "respiratory"]
    /\ obs_conf = [cough |-> 90, fever |-> 40]
    /\ xp3 = Returned([cough |-> 90, fever |-> 40, respiratory |-> 90])
    /\ xp4 = Raised("TypeError")

-----------------------------------------------------------------------------
(* Harness for ancestors: one step per loop iteration of the generator,     *)
(* consumed to exhaustion as list(ancestors(concept)) does.                 *)

InitWalk ==
    /\ wcopy \in {"week3", "week4"}
    /\ PARENT \in Taxonomies
    /\ concept \in Concepts
    /\ cur = concept
    /\ seen = {}
    /\ out = <<>>
    /\ wpc = "run"
    /\ NoFacts /\ NoRules /\ obs_conf = EmptyMap
    /\ IdleInfer /\ IdleEval /\ IdleExpand /\ IdleCrud /\ IdleConc /\ IdleHist

\* one iteration of week3's loop body: seen.add(parent); yield parent; cur = parent
AncestorsYield3 ==
    /\ wpc = "run" /\ wcopy = "week3"
    /\ w3_ancestors_continues(PARENT, cur, seen)
    /\ LET parent == w3_ancestors_parent(PARENT, cur)
       IN  /\ seen' = seen \cup {parent}
           /\ out' = Append(out, parent)
           /\ cur' = parent
    /\ UNCHANGED <<kbVars, crudVars, concVars, histVars,
                   inferVars, evalVars, obs_conf, expandVars, wcopy, concept, wpc>>

\* week3's loop test fails: the generator is exhausted
AncestorsReturn3 ==
    /\ wpc = "run" /\ wcopy = "week3"
    /\ ~w3_ancestors_continues(PARENT, cur, seen)
    /\ wpc' = "done"
    /\ UNCHANGED <<kbVars, crudVars, concVars, histVars,
                   inferVars, evalVars, obs_conf, expandVars, wcopy, concept,
                   cur, seen, out>>

AncestorsYield4 ==
    /\ wpc = "run" /\ wcopy = "week4"
    /\ w4_ancestors_continues(PARENT, cur, seen)
    /\ LET parent == w4_ancestors_parent(PARENT, cur)
       IN  /\ seen' = seen \cup {parent}
           /\ out' = Append(out, parent)
           /\ cur' = parent
    /\ UNCHANGED <<kbVars, crudVars, concVars, histVars,
                   inferVars, evalVars, obs_conf, expandVars, wcopy, concept, wpc>>

AncestorsReturn4 ==
    /\ wpc = "run" /\ wcopy = "week4"
    /\ ~w4_ancestors_continues(PARENT, cur, seen)
    /\ wpc' = "done"
    /\ UNCHANGED <<kbVars, crudVars, concVars, histVars,
                   inferVars, evalVars, obs_conf, expandVars, wcopy, concept,
                   cur, seen, out>>

NextWalk == AncestorsYield3 \/ AncestorsReturn3 \/ AncestorsYield4 \/ AncestorsReturn4

SpecWalk == InitWalk /\ [][NextWalk]_vars

\* the consumer keeps pulling from the generator until it is exhausted
FairSpecWalk == SpecWalk /\ WF_vars(NextWalk)

\* the stepwise walk and the list the expansion uses agree
WalkMatchesList ==
    wpc = "done" =>
        out = IF wcopy = "week3" THEN w3_ancestors(PARENT, concept)
              ELSE w4_ancestors(PARENT, concept)

\* out is parent(concept), parent(parent(concept)), ... in that order
IsParentChain ==
    \A i \in 1..Len(out) :
        LET below == IF i = 1 THEN concept ELSE out[i - 1]
        IN  below \in DOMAIN PARENT /\ out[i] = PARENT[below]

\* an exhausted walk went as far as the chain goes: to a concept without
\* parent, or to one whose parent it had already yielded
ChainComplete ==
    wpc = "done" =>
        LET last == IF out = <<>> THEN concept ELSE out[Len(out)]
        IN  last \notin DOMAIN PARENT \/ PARENT[last] \in Range(out)

OnCycle(P, c) == c \in AncestorSet(P, c)

\* C7 (as claimed): for every parent mapping and every concept the walk
\* yields the parent chain near-to-far and never yields the concept it was
\* called with.
C7_ChainNeverYieldsConcept ==
    /\ IsParentChain
    /\ ChainComplete
    /\ concept \notin Range(out)

\* C7 (amended): the walk yields the parent chain near-to-far; the concept
\* it was called with is yielded only when it lies on a cycle of the parent
\* mapping (a self-parent included), and then as the last identifier; on a
\* mapping where the concept is on no cycle it is never yielded.
C7_ChainYieldsConceptOnlyOnCycle ==
    /\ IsParentChain
    /\ ChainComplete
    /\ concept \in Range(out) =>
          OnCycle(PARENT, concept) /\ out[Len(out)] = concept
    /\ (wpc = "done" /\ OnCycle(PARENT, concept)) => concept \in Range(out)

\* a walk around a three-cycle by week4's copy: the chain in near-to-far
\* order, the concept itself last
C7_ChainWalked ==
    /\ wcopy = "week4"
    /\ PARENT = [cough |-> "fever", fever |-> "respiratory", respiratory |-> "cough"]
    /\ concept = "cough"
    /\ out = <<"fever", "respiratory", "cough">>
    /\ wpc = "done"

NoRepeats(s) == \A i, j \in 1..Len(s) : i # j => s[i] # s[j]

\* the safety half of C8
WalkBounded ==
    /\ NoRepeats(out)
    /\ Len(out) <= Cardinality(Range(PARENT))
    /\ wpc = "run" => seen = Range(out)
    /\ ChainComplete

\* C8: for every parent mapping, cycles and self-parents included, the walk
\* terminates: it yields each identifier at most once, stops as soon as the
\* next parent was already yielded, and yields no more identifiers than the
\* mapping has distinct parents.
C8_WalkTerminates == []WalkBounded /\ <>(wpc = "done")

\* a walk around a two-cycle that has stopped
C8_CycleWalked ==
    /\ wcopy = "week3"
    /\ PARENT = [cough |-> "fever", fever |-> "cough"]
    /\ concept = "cough"
    /\ out = <<"fever", "cough">>
    /\ wpc = "done"

-----------------------------------------------------------------------------
(* Harness for infer: knowledge base and request are drawn in Init, each    *)
(* copy's handler runs once.  observed_ids is a Python set, iterated in an  *)
(* order the program does not control: the handler is given any order.      *)

Merge(a, b) == [x \in DOMAIN a \cup DOMAIN b |-> IF x \in DOMAIN a THEN a[x] ELSE b[x]]

\* a dict in which key k is absent, or present with a value of S
Opt(k, S) == {EmptyMap} \cup {[x \in {k} |-> v] : v \in S}

NonEmptySeqs(S, n) == SeqsUpTo(S, n) \ {<<>>}

\* pieces of the facts query parameter
FactPieces == {"cough", " fever ", ""}

\* pieces of the weights query parameter: cough:1.5, cough:abc, fever:-0.2
\* (padded), cough:0.3, and a piece without ":"
WeightPieces ==
    {[colon |-> TRUE, fid |-> "cough", conf |-> Num(150)],
     [colon |-> TRUE, fid |-> "cough", conf |-> NotANumber],
     [colon |-> TRUE, fid |-> " fever ", conf |-> Num(-20)],
     [colon |-> TRUE, fid |-> "cough", conf |-> Num(30)],
     [colon |-> FALSE, fid |-> "cough", conf |-> NotANumber]}

UseTexts == {"True", "false"}

\* JSON bodies
Bodies ==
    {Merge(f, Merge(w, u)) :
        f \in Opt("facts", {<<>>, <<"cough">>, <<"cough", "fever">>}),
        w \in Opt("weights", {[cough |-> Num(150)], [cough |-> NotANumber],
                              [cough |-> Num(-20), fever |-> Num(40)]}),
        u \in Opt("useTrueFacts", BOOLEAN)}

\* GET requests with a weights query parameter
QueryRequests ==
    {[method |-> "GET", args |-> Merge(f, Merge(w, u)), body |-> EmptyMap] :
        f \in Opt("facts", NonEmptySeqs(FactPieces, MaxTokens)),
        w \in Opt("weights", NonEmptySeqs(WeightPieces, MaxTokens)) \ {EmptyMap},
        u \in Opt("useTrueFacts", UseTexts)}

\* GET requests without one, with or without a JSON body
BodyRequests ==
    {[method |-> "GET", args |-> Merge(f, u), body |-> b] :
        f \in Opt("facts", {<<"cough">>}),
        u \in Opt("useTrueFacts", UseTexts),
        b \in Bodies}

PostRequests == {[method |-> "POST", args |-> EmptyMap, body |-> b] : b \in Bodies}

Requests == QueryRequests \cup BodyRequests \cup PostRequests

RuleIds == <<"r1", "r2", "r3", "r4">>

\* rules as the schema admits them: at least one condition, optional
\* certainty (0.0, 0.5 or 0.82)
RuleCatalog ==
    LET conds == {<<"cough">>, <<"respiratory">>, <<"cough", "fever">>}
    IN  {[conditions |-> cs, conclusion |-> c] : cs \in conds, c \in Conclusions}
        \cup {[conditions |-> cs, conclusion |-> c, certainty |-> cf] :
                cs \in conds, c \in Conclusions, cf \in {0, 50, 82}}

\* rule lists with unique ids
RuleLists ==
    {[i \in 1..Len(l) |-> Merge([id |-> RuleIds[i]], l[i])] :
        l \in SeqsUpTo(RuleCatalog, MaxRules)}

FlatTaxonomy == [cough |-> "respiratory", fever |-> "respiratory"]

\* requests of many shapes against a few knowledge bases
InitInfer ==
    /\ PARENT \in {EmptyMap, FlatTaxonomy}
    /\ facts \in {FactList(<<TRUE, FALSE, FALSE>>), FactList(<<FALSE, TRUE, TRUE>>),
                  FactList(<<FALSE, FALSE, FALSE>>)}
    /\ facts_json = facts
    /\ FACT_VALUE = w4_fact_value(facts)
    /\ rules = <<[id |-> "r1", conditions |-> <<"respiratory">>, conclusion |-> "flu",
                  certainty |-> 82],
                 [id |-> "r2", conditions |-> <<"cough", "fever">>, conclusion |-> "cold"]>>
    /\ rules_json = rules
    /\ req \in Requests
    /\ loc3 = NoneYet /\ resp3 = NoneYet /\ loc4 = NoneYet /\ resp4 = NoneYet
    /\ obs_conf = EmptyMap
    /\ IdleEval /\ IdleExpand /\ IdleWalk /\ IdleCrud /\ IdleConc /\ IdleHist

\* requests that observe cough and fever with different confidences
RankRequests ==
    {[method |-> "GET",
      args |-> [facts |-> <<"cough", " fever ">>, weights |-> w],
      body |-> EmptyMap] :
        w \in {<<[colon |-> FALSE, fid |-> "cough", conf |-> NotANumber]>>,
               <<[colon |-> TRUE, fid |-> " fever ", conf |-> Num(50)]>>,
               <<[colon |-> TRUE, fid |-> "cough", conf |-> Num(33)]>>}}

\* knowledge bases of many shapes against a few requests
InitRank ==
    /\ PARENT \in {EmptyMap, FlatTaxonomy}
    /\ facts = FactList(<<FALSE, FALSE, FALSE>>)
    /\ facts_json = facts
    /\ FACT_VALUE = w4_fact_value(facts)
    /\ rules \in RuleLists
    /\ rules_json = rules
    /\ req \in RankRequests
    /\ loc3 = NoneYet /\ resp3 = NoneYet /\ loc4 = NoneYet /\ resp4 = NoneYet
    /\ obs_conf = EmptyMap
    /\ IdleEval /\ IdleExpand /\ IdleWalk /\ IdleCrud /\ IdleConc /\ IdleHist

Infer3 ==
    /\ resp3 = NoneYet
    /\ \E order \in Orders(w3_observed_ids(w3_parse(req), FACT_VALUE)) :
         LET res == w3_infer(PARENT, FACT_VALUE, rules, req, order)
         IN  loc3' = res.loc /\ resp3' = res.resp
    /\ UNCHANGED <<kbVars, crudVars, concVars, histVars,
                   req, loc4, resp4, evalVars, obs_conf, expandVars, walkVars>>

Infer4 ==
    /\ resp4 = NoneYet
    /\ \E order \in Orders(w4_observed_ids(w4_parse(req), FACT_VALUE)) :
         LET res == w4_infer(PARENT, FACT_VALUE, rules, req, order)
         IN  loc4' = res.loc /\ resp4' = res.resp
    /\ UNCHANGED <<kbVars, crudVars, concVars, histVars,
                   req, loc3, resp3, evalVars, obs_conf, expandVars, walkVars>>

NextInfer == Infer3 \/ Infer4

SpecInfer == InitInfer /\ [][NextInfer]_vars

SpecRank == InitRank /\ [][NextInfer]_vars

-----------------------------------------------------------------------------
(* Claims about infer.                                                      *)

Ran(loc) == loc # NoneYet /\ loc.reached # "entry"

\* the handler got as far as evaluating the rules
Evaluated(loc) == loc # NoneYet /\ loc.reached \in {"aggregate", "return"}

FiredConclusions(fired) == {fired[i].conclusion : i \in 1..Len(fired)}

BestScore(fired, c) ==
    MaxOfSet({fired[i].score : i \in {j \in 1..Len(fired) : fired[j].conclusion = c}})

\* one entry per conclusion of a fired rule, holding the best score
RankedAsSpecified(fired, ranked) ==
    /\ {ranked[i].conclusion : i \in 1..Len(ranked)} = FiredConclusions(fired)
    /\ Len(ranked) = Cardinality(FiredConclusions(fired))
    /\ \A i \in 1..Len(ranked) :
          ranked[i].score = BestScore(fired, ranked[i].conclusion)

\* C4 (as claimed, both copies): ranked_conclusions holds exactly one entry
\* per distinct conclusion among the fired rules, with the maximum score of
\* the fired rules that share the conclusion.  Week4's copy aggregates by
\* r["condition"], a key no fired entry has, and raises KeyError whenever a
\* rule fired.
C4_RankedBestPerConclusionBothCopies ==
    /\ Evaluated(loc3) =>
         /\ resp3.status = "200"
         /\ RankedAsSpecified(loc3.fired, resp3.ranked_conclusions)
    /\ Evaluated(loc4) =>
         /\ resp4.status = "200"
         /\ RankedAsSpecified(loc4.fired, resp4.ranked_conclusions)

\* the part of C4 that week3's copy satisfies
C4_RankedBestPerConclusionWeek3 ==
    Evaluated(loc3) =>
        /\ resp3.status = "200"
        /\ resp3.matched_rules = loc3.fired
        /\ RankedAsSpecified(loc3.fired, resp3.ranked_conclusions)

\* two rules share the conclusion flu with different scores: week3 ranks flu
\* once with the larger one, week4 raises
C4_SharedConclusionReached ==
    /\ Evaluated(loc3) /\ Evaluated(loc4)
    /\ Len(loc3.fired) = 2
    /\ loc3.fired[1].conclusion = "flu" /\ loc3.fired[2].conclusion = "flu"
    /\ loc3.fired[1].score < loc3.fired[2].score
    /\ resp3.ranked_conclusions = <<[conclusion |-> "flu", score |-> loc3.fired[2].score]>>
    /\ resp4.status = "KeyError"

\* the initial confidence of each observed concept: its weight clamped to
\* [0,1], 1.0 without a weight (numeric weights only)
InitialConfAsSpecified(loc) ==
    /\ DOMAIN loc.obs_conf = loc.observed_ids
    /\ \A fid \in loc.observed_ids :
          IF fid \notin DOMAIN loc.weights THEN loc.obs_conf[fid] = One
          ELSE loc.weights[fid].num =>
                   loc.obs_conf[fid] = ClampUnit(loc.weights[fid].v)

\* C5 (as claimed, both copies): the initial confidence infer gives each
\* observed concept is its weight clamped to [0,1], or 1.0 when no weight is
\* given: 1.5 becomes 1.0, -0.2 becomes 0.0, a weight in [0,1] is kept.
\* Week4's clamp01 caps at 0.1.
C5_InitialConfidenceBothCopies ==
    /\ Ran(loc3) => InitialConfAsSpecified(loc3)
    /\ Ran(loc4) => InitialConfAsSpecified(loc4)

\* the part of C5 that week3's copy satisfies
C5_InitialConfidenceWeek3 == Ran(loc3) => InitialConfAsSpecified(loc3)

\* weights 1.5 for cough and -0.2 for fever: week3 starts from 1.0 and 0.0,
\* week4 from 0.1 and 0.0
C5_ClampReached ==
    /\ Ran(loc3) /\ Ran(loc4)
    /\ loc3.weights = [cough |-> Num(150), fever |-> Num(-20)]
    /\ loc3.observed_ids = {"cough", "fever"}
    /\ loc3.obs_conf = [cough |-> One, fever |-> 0]
    /\ loc4.obs_conf = [cough |-> Tenth, fever |-> 0]

\* position in the knowledge base of the first fired rule concluding c
FirstProducer(fired, c) ==
    LET ids == {fired[i].rule : i \in {j \in 1..Len(fired) : fired[j].conclusion = c}}
    IN  CHOOSE k \in 1..Len(rules) :
            /\ rules[k].id \in ids
            /\ \A m \in 1..Len(rules) : rules[m].id \in ids => k <= m

\* C6: ranked_conclusions is ordered by score, highest first, and two
\* conclusions of equal score appear in the order in which fired rules first
\* produced them, which is the order of the rules in the knowledge base.
C6_RankedByScoreTiesFirstSeen ==
    (resp3 # NoneYet /\ resp3.status = "200") =>
        LET ranked == resp3.ranked_conclusions
        IN  \A i, j \in 1..Len(ranked) :
                i < j =>
                    /\ ranked[i].score >= ranked[j].score
                    /\ ranked[i].score = ranked[j].score =>
                           FirstProducer(resp3.matched_rules, ranked[i].conclusion)
                             < FirstProducer(resp3.matched_rules, ranked[j].conclusion)

\* a tie: flu and cold both score 0.5 and flu's rule comes first in the
\* knowledge base, so flu is ranked first
C6_TieReached ==
    /\ resp3 # NoneYet /\ resp3.status = "200"
    /\ Len(rules) = 2
    /\ rules[1].conclusion = "flu" /\ rules[2].conclusion = "cold"
    /\ resp3.ranked_conclusions = <<[conclusion |-> "flu", score |-> 5000],
                                    [conclusion |-> "cold", score |-> 5000]>>

\* what a request asks for, when it carries its inputs in one place only:
\* in the query string (no JSON body) or in the JSON body (no query string)
QueryOnly(r) == r.body = EmptyMap
JsonOnly(r) == r.args = EmptyMap

AskedFacts(r) ==
    IF JsonOnly(r) THEN Range(Get(r.body, "facts", <<>>))
    ELSE ParseFactsParam(Get(r.args, "facts", <<>>))

AskedWeights(r) ==
    IF JsonOnly(r) THEN DOMAIN Get(r.body, "weights", EmptyMap)
    ELSE {Strip(w.fid) : w \in {x \in Range(Get(r.args, "weights", <<>>)) : x.colon}}

AskedUseTrueFacts(r) ==
    IF JsonOnly(r) THEN Get(r.body, "useTrueFacts", FALSE)
    ELSE Lower(Get(r.args, "useTrueFacts", "false")) = "true"

BaselineTrue == {fid \in DOMAIN FACT_VALUE : FACT_VALUE[fid] = TRUE}

ObservedIn(resp) == {resp.observations[i].id : i \in 1..Len(resp.observations)}

\* what C9 states of one copy's run on request r
BaselineAsSpecified(r, loc, resp) ==
    /\ loc.observed_ids =
          AskedFacts(r) \cup (IF AskedUseTrueFacts(r) THEN BaselineTrue ELSE {})
    /\ (AskedFacts(r) = {} /\ AskedWeights(r) = {} /\ AskedUseTrueFacts(r)) =>
          /\ resp.status = "200"
          /\ \A f \in BaselineTrue :
                [id |-> f, confidence |-> One] \in Range(resp.observations)
          /\ \A f \in ObservedIn(resp) \ BaselineTrue :
                \E o \in BaselineTrue : f \in AncestorSet(PARENT, o)

\* C9 (as claimed, GET requests, both copies): the observation set is the
\* union of the requested fact ids and, exactly when useTrueFacts is true,
\* the baseline-true facts; with no facts, no weights and useTrueFacts =
\* true every baseline-true fact is observed with confidence 1.0 and no
\* baseline-false fact appears unless it is an ancestor of an observed one.
C9_BaselineFactsBothCopies ==
    (req # NoneYet /\ req.method = "GET" /\ (QueryOnly(req) \/ JsonOnly(req))) =>
        /\ Ran(loc3) => BaselineAsSpecified(req, loc3, resp3)
        /\ Ran(loc4) => BaselineAsSpecified(req, loc4, resp4)

\* the path on which week3 does what C9 states: a GET request without query
\* string whose JSON body carries the inputs
C9_BaselineFactsJsonGetWeek3 ==
    (req # NoneYet /\ req.method = "GET" /\ JsonOnly(req) /\ Ran(loc3)) =>
        BaselineAsSpecified(req, loc3, resp3)

\* GET /infer?useTrueFacts=True over a knowledge base whose only true fact
\* is cough: neither copy observes anything
C9_FlagIgnoredReached ==
    /\ req # NoneYet /\ req.method = "GET"
    /\ req.args = [useTrueFacts |-> "True"] /\ req.body = EmptyMap
    /\ BaselineTrue = {"cough"}
    /\ Ran(loc3) /\ resp3.status = "200" /\ resp3.observations = <<>>
    /\ Ran(loc4) /\ resp4.status = "200" /\ resp4.observations = <<>>

\* request r gives fid a weight, and only weights that are not numbers
OnlyBadWeight(r, fid) ==
    IF Get(r.args, "weights", <<>>) # <<>>
    THEN LET given == {w \in Range(r.args.weights) : w.colon /\ Strip(w.fid) = fid}
         IN  given # {} /\ \A w \in given : ~w.conf.num
    ELSE LET weights == Get(r.body, "weights", EmptyMap)
         IN  fid \in DOMAIN weights /\ ~weights[fid].num

\* C10 (as claimed): a weight that is not a number counts as no weight: the
\* observed concept gets the default confidence 1.0 and infer does not
\* raise.  Week3 does so for the weights query parameter; a weight of the
\* JSON body reaches clamp01, whose except branch returns 0.0.
C10_BadWeightIsDefault ==
    (req # NoneYet /\ req.method = "GET" /\ Ran(loc3)) =>
        /\ resp3.status = "200"
        /\ \A fid \in loc3.observed_ids :
              OnlyBadWeight(req, fid) => loc3.obs_conf[fid] = One

\* the part of C10 week3 satisfies: weights given in the query string
C10_BadQueryWeightIsDefaultWeek3 ==
    (req # NoneYet /\ req.method = "GET" /\ Ran(loc3)
        /\ Get(req.args, "weights", <<>>) # <<>>) =>
        /\ resp3.status = "200"
        /\ \A fid \in loc3.observed_ids :
              OnlyBadWeight(req, fid) => loc3.obs_conf[fid] = One

\* body {"facts": ["cough"], "weights": {"cough": "abc"}}: confidence 0.0
C10_BadBodyWeightReached ==
    /\ req # NoneYet /\ req.method = "GET"
    /\ req.body = [facts |-> <<"cough">>, weights |-> [cough |-> NotANumber]]
    /\ Ran(loc3) /\ resp3.status = "200"
    /\ loc3.obs_conf = [cough |-> 0]

-----------------------------------------------------------------------------
(* Harness for the propagation scenario: one rule with a single condition,  *)
(* one observed concept, taxonomies in which concepts have ancestors.       *)

\* acyclic taxonomies: a single edge, a chain, two concepts under one parent
ScenarioTaxonomies ==
    {[cough |-> "respiratory"],
     [cough |-> "fever", fever |-> "respiratory"],
     FlatTaxonomy}

\* certainty factors of the scenario's rule: 0.8, and the values 0.0 and 1.5
ScenarioCertainties == {80, 0, 150}

ScenarioRules ==
    {[id |-> "r1", conditions |-> <<a>>, conclusion |-> "flu"] : a \in Concepts}
    \cup {[id |-> "r1", conditions |-> <<a>>, conclusion |-> "flu", certainty |-> cf] :
            a \in Concepts, cf \in ScenarioCertainties}

\* weights of the scenario's observation: 1.5, 0.4 and -0.2
ScenarioWeights == {150, 40, -20}

\* GET requests observing one concept d: in a JSON body without weights,
\* with "weights": {} or with a weight for d; in the query string with a
\* weight for d or without the weights parameter
ScenarioRequests ==
    UNION {{[method |-> "GET", args |-> EmptyMap, body |-> Merge([facts |-> <<d>>], w)] :
               w \in Opt("weights", {EmptyMap} \cup
                                    {[x \in {d} |-> Num(c)] : c \in ScenarioWeights})} :
           d \in Concepts}
    \cup {[method |-> "GET",
           args |-> [facts |-> <<d>>,
                     weights |-> <<[colon |-> TRUE, fid |-> d, conf |-> Num(c)]>>],
           body |-> EmptyMap] : d \in Concepts, c \in ScenarioWeights}
    \cup {[method |-> "GET", args |-> [facts |-> <<d>>], body |-> EmptyMap] :
            d \in Concepts}

InitScenario ==
    /\ PARENT \in ScenarioTaxonomies
    /\ facts = FactList(<<FALSE, FALSE, FALSE>>)
    /\ facts_json = facts
    /\ FACT_VALUE = w4_fact_value(facts)
    /\ \E r \in ScenarioRules : rules = <<r>>
    /\ rules_json = rules
    /\ req \in ScenarioRequests
    /\ loc3 = NoneYet /\ resp3 = NoneYet /\ loc4 = NoneYet /\ resp4 = NoneYet
    /\ obs_conf = EmptyMap
    /\ IdleEval /\ IdleExpand /\ IdleWalk /\ IdleCrud /\ IdleConc /\ IdleHist

SpecScenario == InitScenario /\ [][NextInfer]_vars

\* the confidence request r asks for concept d: its weight clamped to [0,1],
\* 1.0 without a weight
AskedConfidence(r, d) ==
    IF JsonOnly(r)
    THEN LET w == Get(r.body, "weights", EmptyMap)
         IN  IF d \in DOMAIN w THEN ClampUnit(w[d].v) ELSE One
    ELSE LET given == {x \in Range(Get(r.args, "weights", <<>>)) : Strip(x.fid) = d}
         IN  IF given = {} THEN One
             ELSE ClampUnit((CHOOSE x \in given : TRUE).conf.v)

\* request r observes exactly one concept, a descendant of the single
\* condition of the only rule, with a positive confidence
DescendantObserved(r) ==
    /\ Cardinality(AskedFacts(r)) = 1
    /\ LET d == CHOOSE x \in AskedFacts(r) : TRUE
       IN  /\ rules[1].conditions[1] \in AncestorSet(PARENT, d)
           /\ AskedConfidence(r, d) > 0
    /\ ClampUnit(Get(rules[1], "certainty", One)) > 0

\* c times the certainty of the rule, as the response reports it
ScenarioScore(r) ==
    round3(AskedConfidence(r, CHOOSE x \in AskedFacts(r) : TRUE)
           * ClampUnit(Get(rules[1], "certainty", One)))

\* what C11 states of one copy's answer to request r
ScenarioAsSpecified(r, resp) ==
    /\ resp.status = "200"
    /\ [id |-> rules[1].conditions[1],
        confidence |-> AskedConfidence(r, CHOOSE x \in AskedFacts(r) : TRUE)]
          \in Range(resp.observations)
    /\ Len(resp.matched_rules) = 1
    /\ resp.matched_rules[1].rule = rules[1].id
    /\ resp.matched_rules[1].score = ScenarioScore(r)
    /\ resp.ranked_conclusions =
          <<[conclusion |-> rules[1].conclusion, score |-> ScenarioScore(r)]>>

\* C11 (as claimed, both copies): when only a descendant concept is observed
\* with confidence c and the single condition of a rule is one of its
\* ancestors, infer gives the ancestor confidence c, fires the rule with
\* score c times the rule's certainty and ranks its conclusion with that
\* score.  Week4's copy raises in the expansion; week3's copy ignores the
\* facts of a query string that has no weights parameter.
C11_ScenarioBothCopies ==
    (req # NoneYet /\ DescendantObserved(req)) =>
        /\ resp3 # NoneYet => ScenarioAsSpecified(req, resp3)
        /\ resp4 # NoneYet => ScenarioAsSpecified(req, resp4)

\* the part of C11 that week3's copy satisfies: the observation arrives in
\* the JSON body of a GET request, or in a query string that has a weights
\* parameter
C11_ScenarioDeliveredWeek3 ==
    (req # NoneYet /\ DescendantObserved(req) /\ resp3 # NoneYet
        /\ (JsonOnly(req) \/ "weights" \in DOMAIN req.args)) =>
        ScenarioAsSpecified(req, resp3)

\* the scenario of the specification: cough -> respiratory, r1 = ([respiratory],
\* flu, 0.8), body {"facts": ["cough"], "weights": {}}: week3 answers r1
\* with 0.8 and (flu, 0.8), week4 answers with a TypeError
C11_ScenarioReached ==
    /\ PARENT = [cough |-> "respiratory"]
    /\ rules = <<[id |-> "r1", conditions |-> <<"respiratory">>, conclusion |-> "flu",
                  certainty |-> 80]>>
    /\ req # NoneYet /\ req.method = "GET"
    /\ req.body = [facts |-> <<"cough">>, weights |-> EmptyMap]
    /\ resp3 # NoneYet /\ resp3.status = "200"
    /\ resp3.observations = <<[id |-> "cough", confidence |-> One],
                              [id |-> "respiratory", confidence |-> One]>>
    /\ Len(resp3.matched_rules) = 1 /\ resp3.matched_rules[1].score = 8000
    /\ resp3.ranked_conclusions = <<[conclusion |-> "flu", score |-> 8000]>>
    /\ resp4 # NoneYet /\ resp4.status = "TypeError"

-----------------------------------------------------------------------------
(* Totality of the entry point.                                             *)

\* the call ended with one result record
ResultReturned(resp) == resp.status = "200"

\* C12 (as claimed, both copies): infer is total: for a GET and for a POST
\* request, with or without a weights parameter, with or without fired
\* rules, it returns one result record with matched_rules,
\* ranked_conclusions and observations.  In both copies the whole body of
\* infer is the GET branch: a POST request falls off the end of the
\* function, the view returns None and the request ends in a TypeError.
C12_InferTotal ==
    /\ resp3 # NoneYet => ResultReturned(resp3)
    /\ resp4 # NoneYet => ResultReturned(resp4)

\* the part of C12 that week3's copy satisfies: every GET request of the
\* model gets a result record
C12_GetTotalWeek3 ==
    (resp3 # NoneYet /\ req.method = "GET") => ResultReturned(resp3)

\* a POST request with the observation in its JSON body: no result record
\* from either copy
C12_PostReached ==
    /\ req # NoneYet /\ req.method = "POST"
    /\ req.body = [facts |-> <<"cough">>]
    /\ resp3 # NoneYet /\ resp3.status = "TypeError"
    /\ resp4 # NoneYet /\ resp4.status = "TypeError"

-----------------------------------------------------------------------------
(* Repeated calls: the handlers run again and again on one knowledge base,  *)
(* each call with a request and an iteration order of its own.              *)

\* the module globals when week3's infer has ended: infer has no global
\* statement, and it only reads FACT_VALUE (.items()), rules (for ... in)
\* and PARENT (in, []); observed_ids.update() writes the handler's own set
w3_infer_kb(P, FV, rls, fs, observed) ==
    [PARENT |-> P, FACT_VALUE |-> FV, rules |-> rls, facts |-> fs]

\* mutant of w4_infer_kb: the observed ids are written into FACT_VALUE
w4_infer_kb_marks_observed(P, FV, rls, fs, observed) ==
    [PARENT |-> P,
     FACT_VALUE |-> [fid \in DOMAIN FV \cup observed |->
                        fid \in observed \/ Get(FV, fid, FALSE)],
     rules |-> rls, facts |-> fs]

w4_infer_kb(P, FV, rls, fs, observed) ==
    [PARENT |-> P, FACT_VALUE |-> FV, rules |-> rls, facts |-> fs]

CurrentKb == [PARENT |-> PARENT, FACT_VALUE |-> FACT_VALUE, rules |-> rules, facts |-> facts]

\* requests that share observed ids and weights: the same facts listed in
\* two orders, in the body and in the query string, with and without the
\* baseline facts, and a POST request
RerunRequests ==
    {[method |-> "GET", args |-> EmptyMap, body |-> Merge([facts |-> f], w)] :
        f \in {<<"cough", "fever">>, <<"fever", "cough">>, <<"cough">>},
        w \in Opt("weights", {[cough |-> Num(40)]})}
    \cup {[method |-> "GET", args |-> EmptyMap,
           body |-> [facts |-> <<"fever">>, useTrueFacts |-> TRUE]],
          [method |-> "GET",
           args |-> [facts |-> <<"cough", " fever ">>,
                     weights |-> <<[colon |-> TRUE, fid |-> "cough", conf |-> Num(40)]>>],
           body |-> EmptyMap],
          [method |-> "POST", args |-> EmptyMap, body |-> [facts |-> <<"cough">>]]}

InitRerun ==
    /\ PARENT \in {EmptyMap, FlatTaxonomy}
    /\ facts \in {FactList(<<TRUE, FALSE, FALSE>>), FactList(<<FALSE, TRUE, TRUE>>),
                  FactList(<<FALSE, FALSE, FALSE>>)}
    /\ facts_json = facts
    /\ FACT_VALUE = w4_fact_value(facts)
    /\ rules = <<[id |-> "r1", conditions |-> <<"respiratory">>, conclusion |-> "flu",
                  certainty |-> 82],
                 [id |-> "r2", conditions |-> <<"cough", "fever">>, conclusion |-> "cold"]>>
    /\ rules_json = rules
    /\ kb_old = CurrentKb
    /\ req = NoneYet
    /\ loc3 = NoneYet /\ resp3 = NoneYet /\ loc4 = NoneYet /\ resp4 = NoneYet
    /\ obs_conf = EmptyMap
    /\ IdleEval /\ IdleExpand /\ IdleWalk /\ IdleCrud /\ IdleHist
    /\ ipc = "idle" /\ fv_read = NoneYet /\ it_idx = 0 /\ it_seen = <<>>
    /\ cpc = "idle" /\ cnew = NoneYet

\* one more call of week3's infer
InferCall3 ==
    \E r \in RerunRequests :
      \E order \in Orders(w3_observed_ids(w3_parse(r), FACT_VALUE)) :
        LET res == w3_infer(PARENT, FACT_VALUE, rules, r, order)
            kb == w3_infer_kb(PARENT, FACT_VALUE, rules, facts, res.loc.observed_ids)
        IN  /\ req' = r
            /\ loc3' = res.loc /\ resp3' = res.resp
            /\ call3' = [req |-> r, order |-> order]
            /\ prev3' = IF call3 = NoneYet THEN NoneYet
                        ELSE [loc |-> loc3, resp |-> resp3, order |-> call3.order]
            /\ PARENT' = kb.PARENT /\ FACT_VALUE' = kb.FACT_VALUE
            /\ rules' = kb.rules /\ facts' = kb.facts
            /\ UNCHANGED <<facts_json, rules_json, crud_resp, concVars, call4, loc4, resp4,
                           evalVars, obs_conf, expandVars, walkVars>>

\* one more call of week4's infer
InferCall4 ==
    \E r \in RerunRequests :
      \E order \in Orders(w4_observed_ids(w4_parse(r), FACT_VALUE)) :
        LET res == w4_infer(PARENT, FACT_VALUE, rules, r, order)
            kb == w4_infer_kb(PARENT, FACT_VALUE, rules, facts, res.loc.observed_ids)
        IN  /\ req' = r
            /\ loc4' = res.loc /\ resp4' = res.resp
            /\ call4' = [req |-> r, order |-> order]
            /\ PARENT' = kb.PARENT /\ FACT_VALUE' = kb.FACT_VALUE
            /\ rules' = kb.rules /\ facts' = kb.facts
            /\ UNCHANGED <<facts_json, rules_json, crud_resp, concVars, call3, prev3,
                           loc3, resp3, evalVars, obs_conf, expandVars, walkVars>>

NextRerun == InferCall3 \/ InferCall4

SpecRerun == InitRerun /\ [][NextRerun]_vars

\* two runs with the same observed ids, weights and flag
SameInputs(a, b) ==
    /\ Ran(a) /\ Ran(b)
    /\ a.observed_ids = b.observed_ids
    /\ a.weights = b.weights
    /\ a.use_true_facts = b.use_true_facts

\* C13: for a fixed knowledge base, fixed observed ids, fixed weights and
\* fixed useTrueFacts flag, two runs of infer return identical output: the
\* same matched_rules, the same ranked_conclusions in the same order, the
\* same observations, whatever order the set of observed ids is iterated in.
C13_SameInputsSameOutput ==
    (prev3 # NoneYet /\ SameInputs(prev3.loc, loc3)) => resp3 = prev3.resp

\* two runs on cough (weight 0.4) and fever under one parent that iterated
\* the observed ids in different orders and answered the same, rules fired
C13_TwoOrdersReached ==
    /\ prev3 # NoneYet /\ SameInputs(prev3.loc, loc3)
    /\ PARENT = FlatTaxonomy
    /\ loc3.observed_ids = {"cough", "fever"}
    /\ loc3.weights = [cough |-> Num(40)]
    /\ prev3.order = <<"cough", "fever">> /\ call3.order = <<"fever", "cough">>
    /\ resp3 = prev3.resp
    /\ Len(resp3.matched_rules) = 2
    /\ [id |-> "respiratory", confidence |-> One] \in Range(resp3.observations)

-----------------------------------------------------------------------------
(* Expansion: order of processing, and the caller's map.                    *)

\* C14: the result of expanding an observation map does not depend on the
\* order in which its entries are processed: for every taxonomy and every
\* two orderings of the same observations, expand_observation returns maps
\* with the same keys and the same values.
C14_ExpansionOrderIndependent ==
    xp3 # NoneYet =>
        \A other \in Orders(DOMAIN obs_conf) :
            w3_expand_observation(PARENT, obs_conf, other) = xp3

\* {cough: 0.9, fever: 0.4} under one parent, processed fever first: the
\* parent still gets 0.9
C14_SmallerFirstReached ==
    /\ PARENT = FlatTaxonomy
    /\ obs_conf = [cough |-> 90, fever |-> 40]
    /\ obs_order = <<"fever", "cough">>
    /\ xp3 = Returned([cough |-> 90, fever |-> 40, respiratory |-> 90])

-----------------------------------------------------------------------------
(* matched_rules.                                                           *)

\* the map week3's rule loop evaluates against: the expansion of the initial
\* confidences (in any order of the entries)
Expanded3(loc) ==
    w3_expand_observation(PARENT, loc.obs_conf,
                          CHOOSE o \in Orders(DOMAIN loc.obs_conf) : TRUE).value

Expanded4(loc) ==
    w4_expand_observations(PARENT, loc.obs_conf,
                           CHOOSE o \in Orders(DOMAIN loc.obs_conf) : TRUE).value

\* ids of a list of rules / of fired entries, in order
RuleIdsOf(rls) == [i \in 1..Len(rls) |-> rls[i].id]
FiredIdsOf(fired) == [i \in 1..Len(fired) |-> fired[i].rule]

RuleById(rid) == rules[CHOOSE k \in 1..Len(rules) : rules[k].id = rid]

\* C15: matched_rules lists, in the order of the rules in the knowledge
\* base, exactly those rules for which evaluate_rule returns fires = True
\* with a score strictly greater than 0, so a rule with certainty 0 is never
\* listed, and the score reported for each listed rule is the evaluator's
\* score rounded to 3 decimal places.  Stated of the list each copy's rule
\* loop builds and of matched_rules in every result record returned.
C15_MatchedRulesListed ==
    /\ Evaluated(loc3) =>
         LET conf == Expanded3(loc3)
         IN  /\ resp3.status = "200" /\ resp3.matched_rules = loc3.fired
             /\ FiredIdsOf(loc3.fired) =
                   RuleIdsOf(SelectSeq(rules, LAMBDA r :
                       w3_evaluate_rule(r, conf).fires /\ w3_evaluate_rule(r, conf).score > 0))
             /\ \A i \in 1..Len(loc3.fired) :
                   LET r == RuleById(loc3.fired[i].rule)
                   IN  /\ loc3.fired[i].score = round3(w3_evaluate_rule(r, conf).score)
                       /\ loc3.fired[i].score % 10 = 0
                       /\ loc3.fired[i].conclusion = r.conclusion
                       /\ Get(r, "certainty", One) # 0
    /\ Evaluated(loc4) =>
         LET conf == Expanded4(loc4)
         IN  /\ resp4.status = "200" => resp4.matched_rules = loc4.fired
             /\ FiredIdsOf(loc4.fired) =
                   RuleIdsOf(SelectSeq(rules, LAMBDA r :
                       w4_evaluate_rule(r, conf).fires /\ w4_evaluate_rule(r, conf).score > 0))
             /\ \A i \in 1..Len(loc4.fired) :
                   LET r == RuleById(loc4.fired[i].rule)
                   IN  /\ loc4.fired[i].score = round3(w4_evaluate_rule(r, conf).score)
                       /\ loc4.fired[i].score % 10 = 0
                       /\ loc4.fired[i].conclusion = r.conclusion
                       /\ Get(r, "certainty", One) # 0

\* cough observed with 0.33; r1 has certainty 0 and is not listed, r2 has
\* certainty 0.82 and is listed with 0.271 (0.2706 rounded)
C15_ZeroCertaintySkippedReached ==
    /\ Evaluated(loc3) /\ resp3.status = "200"
    /\ PARENT = EmptyMap
    /\ Len(rules) = 2
    /\ rules[1].conditions = <<"cough">> /\ Get(rules[1], "certainty", One) = 0
    /\ rules[2].conditions = <<"cough">> /\ Get(rules[2], "certainty", One) = 82
    /\ loc3.obs_conf = [cough |-> 33, fever |-> One]
    /\ Len(resp3.matched_rules) = 1
    /\ resp3.matched_rules[1].rule = "r2"
    /\ resp3.matched_rules[1].score = 2710

-----------------------------------------------------------------------------
(* week4: JSON schemas and the handlers that create, edit and delete facts  *)
(* and rules.  A handler yields [status, list, file]: how it ended, the     *)
(* in-memory list and the content of the JSON file when it has ended.  The  *)
(* "tags" of a fact, always a list of stripped strings, are left out.       *)

\* facts_array_schema on the items of a fact list
facts_array_schema(fs) ==
    \A i \in 1..Len(fs) :
        /\ {"id", "description", "value"} \subseteq DOMAIN fs[i]
        /\ DOMAIN fs[i] \subseteq {"id", "description", "value", "tags"}
        /\ fs[i].id # ""
        /\ fs[i].value \in BOOLEAN

\* mutant of rules_array_schema: "conditions" without "minItems": 1
rules_array_schema_no_min_items(rls) ==
    \A i \in 1..Len(rls) :
        /\ {"id", "conditions", "conclusion"} \subseteq DOMAIN rls[i]
        /\ DOMAIN rls[i] \subseteq {"id", "conditions", "conclusion", "certainty", "explain"}
        /\ rls[i].id # ""
        /\ \A k \in 1..Len(rls[i].conditions) : rls[i].conditions[k] # ""
        /\ rls[i].conclusion # ""
        /\ "certainty" \in DOMAIN rls[i] =>
              rls[i].certainty >= 0 /\ rls[i].certainty <= One

\* rules_array_schema on the items of a rule list
rules_array_schema(rls) ==
    \A i \in 1..Len(rls) :
        /\ {"id", "conditions", "conclusion"} \subseteq DOMAIN rls[i]
        /\ DOMAIN rls[i] \subseteq {"id", "conditions", "conclusion", "certainty", "explain"}
        /\ rls[i].id # ""
        /\ Len(rls[i].conditions) >= 1
        /\ \A k \in 1..Len(rls[i].conditions) : rls[i].conditions[k] # ""
        /\ rls[i].conclusion # ""
        /\ "certainty" \in DOMAIN rls[i] =>
              rls[i].certainty >= 0 /\ rls[i].certainty <= One

Ended(status, list, file) == [status |-> status, list |-> list, file |-> file]

HasId(list, id) == \E i \in 1..Len(list) : list[i].id = id

\* [updated if x["id"] == id else x for x in list]
ReplaceById(list, id, updated) ==
    [i \in 1..Len(list) |-> IF list[i].id = id THEN updated ELSE list[i]]

\* [x for x in list if x.get("id") != id]
RemoveById(list, id) == SelectSeq(list, LAMBDA x : x.id # id)

\* [c.strip() for c in conditions_raw.split(",") if c.strip()]
ParseConditions(pieces) ==
    SelectSeq([i \in 1..Len(pieces) |-> Strip(pieces[i])], LAMBDA c : c # "")

\* try: validate(new_facts, facts_array_schema); write_json("facts.json", new_facts)
\* except ValidationError: (return); then facts.clear(); facts.extend(new_facts)
w4_store_facts(fs, file, new_facts, done) ==
    IF ~facts_array_schema(new_facts) THEN Ended("validation_error", fs, file)
    ELSE Ended(done, new_facts, new_facts)

\* POST /facts/new; form holds id, description, value ("on" as TRUE)
w4_facts_new(fs, file, form) ==
    LET fid == Strip(form.id)
    IN  IF fid = "" THEN Ended("id_required", fs, file)
        ELSE IF HasId(fs, fid) THEN Ended("exists", fs, file)
        ELSE w4_store_facts(fs, file,
                            Append(fs, Fact(fid, form.description, form.value)),
                            "created")

\* POST /facts/<fid>/edit
w4_facts_edit(fs, file, fid, form) ==
    IF ~HasId(fs, fid) THEN Ended("not_found", fs, file)
    ELSE w4_store_facts(fs, file,
                        ReplaceById(fs, fid, Fact(fid, form.description, form.value)),
                        "updated")

\* POST /facts/<fid>/delete
w4_facts_delete(fs, file, fid) ==
    IF ~HasId(fs, fid) THEN Ended("not_found", fs, file)
    ELSE w4_store_facts(fs, file, RemoveById(fs, fid), "deleted")

\* try: validate(new_rules, rules_array_schema); write_json("rules.json", new_rules)
\* except ValidationError: (return); then rules.clear(); rules.extend(new_rules)
w4_store_rules(rls, file, new_rules, done) ==
    IF ~rules_array_schema(new_rules) THEN Ended("validation_error", rls, file)
    ELSE Ended(done, new_rules, new_rules)

\* the dict built from the rule form; certainty = clamp01(form value or 1.0)
RuleFromForm(rid, form) ==
    [id |-> rid,
     conditions |-> ParseConditions(form.conditions),
     conclusion |-> Strip(form.conclusion),
     certainty |-> w4_clamp01(Get(form, "certainty", Num(One))),
     explain |-> ""]

\* POST /rules/new; form holds id, conditions (the pieces between commas),
\* conclusion and, when the field is filled in, certainty
w4_rules_new(rls, file, form) ==
    LET rid == Strip(form.id)
    IN  IF rid = "" THEN Ended("id_required", rls, file)
        ELSE IF HasId(rls, rid) THEN Ended("exists", rls, file)
        ELSE w4_store_rules(rls, file, Append(rls, RuleFromForm(rid, form)), "created")

\* POST /rules/<rid>/edit
w4_rules_edit(rls, file, rid, form) ==
    IF ~HasId(rls, rid) THEN Ended("not_found", rls, file)
    ELSE w4_store_rules(rls, file, ReplaceById(rls, rid, RuleFromForm(rid, form)),
                        "updated")

\* POST /rules/<rid>/delete
w4_rules_delete(rls, file, rid) ==
    IF ~HasId(rls, rid) THEN Ended("not_found", rls, file)
    ELSE w4_store_rules(rls, file, RemoveById(rls, rid), "deleted")

-----------------------------------------------------------------------------
(* Harness for the handlers: requests arrive one after the other, each      *)
(* handler runs to its end.                                                 *)

\* ids a rule form or a rule URL may name
CrudRuleIds == {RuleIds[i] : i \in 1..MaxRules}

\* ids a fact URL may name
CrudFactIds == {"cough", "fever"}

FactForms ==
    {[id |-> i, description |-> "", value |-> v] :
        i \in {"cough", " fever ", ""}, v \in BOOLEAN}

\* rule forms: conditions "", "cough" or "cough, fever"; conclusion "" or
\* "flu"; certainty left empty or filled with text that is not a number
RuleForms ==
    {Merge([id |-> i, conditions |-> cs, conclusion |-> c], cf) :
        i \in CrudRuleIds \cup {""},
        cs \in {<<>>, <<"cough">>, <<"cough", " fever ">>},
        c \in {"", "flu"},
        cf \in Opt("certainty", {NotANumber})}

InitCrud ==
    /\ PARENT = EmptyMap
    /\ facts \in {<<>>, <<Fact("cough", "", TRUE)>>}
    /\ facts_json = facts
    /\ FACT_VALUE = w4_fact_value(facts)
    /\ rules \in {<<>>, <<[id |-> "r1", conditions |-> <<"cough">>, conclusion |-> "flu"]>>}
    /\ rules_json = rules
    /\ crud_resp = "none"
    /\ obs_conf = EmptyMap
    /\ IdleInfer /\ IdleEval /\ IdleExpand /\ IdleWalk /\ IdleConc /\ IdleHist

\* mutant of w4_rebind_fact_value: facts_delete without its two last
\* statements before the flash
w4_rebind_fact_value_not_on_delete(e, table) ==
    IF e.status \in {"created", "updated"} THEN w4_fact_value(e.list) ELSE table

\* global FACT_VALUE; FACT_VALUE = {...}: the statement after facts.extend,
\* reached by the handlers that stored their list; the early returns leave
\* the module's table as it is
w4_rebind_fact_value(e, table) ==
    IF e.status \in {"created", "updated", "deleted"}
    THEN w4_fact_value(e.list) ELSE table

\* a fact handler has ended with e: facts and the file are as it left them,
\* FACT_VALUE is rebuilt when the handler got as far as storing the list
FactsHandled(e) ==
    /\ crud_resp' = e.status
    /\ facts' = e.list
    /\ facts_json' = e.file
    /\ FACT_VALUE' = w4_rebind_fact_value(e, FACT_VALUE)
    /\ UNCHANGED <<PARENT, rules, rules_json, concVars, histVars, inferVars, evalVars,
                   obs_conf, expandVars, walkVars>>

RulesHandled(e) ==
    /\ crud_resp' = e.status
    /\ rules' = e.list
    /\ rules_json' = e.file
    /\ UNCHANGED <<PARENT, FACT_VALUE, facts, facts_json, concVars, histVars, inferVars,
                   evalVars, obs_conf, expandVars, walkVars>>

FactsNew == \E form \in FactForms : FactsHandled(w4_facts_new(facts, facts_json, form))

FactsEdit ==
    \E fid \in CrudFactIds, form \in FactForms :
        FactsHandled(w4_facts_edit(facts, facts_json, fid, form))

FactsDelete ==
    \E fid \in CrudFactIds : FactsHandled(w4_facts_delete(facts, facts_json, fid))

RulesNew == \E form \in RuleForms : RulesHandled(w4_rules_new(rules, rules_json, form))

RulesEdit ==
    \E rid \in CrudRuleIds, form \in RuleForms :
        RulesHandled(w4_rules_edit(rules, rules_json, rid, form))

RulesDelete ==
    \E rid \in CrudRuleIds : RulesHandled(w4_rules_delete(rules, rules_json, rid))

NextCrud ==
    FactsNew \/ FactsEdit \/ FactsDelete \/ RulesNew \/ RulesEdit \/ RulesDelete

SpecCrud == InitCrud /\ [][NextCrud]_vars

\* every rule of the knowledge base has at least one condition
RulesHaveConditions ==
    \A i \in 1..Len(rules) :
        "conditions" \in DOMAIN rules[i] /\ Len(rules[i].conditions) >= 1

\* a request rejected by the schema leaves lists, table and files alone
RejectedWithoutEffect ==
    crud_resp' = "validation_error" =>
        UNCHANGED <<facts, rules, FACT_VALUE, facts_json, rules_json>>

\* C20: a fact or rule create, edit or delete whose candidate list fails
\* schema validation (a rule with zero conditions, say) is rejected without
\* effect: fact list, rule list, baseline value table and the JSON files
\* are as before the request; so after any sequence of such operations
\* every rule of the knowledge base has at least one condition.
C20_InvalidCandidateRejected ==
    /\ []RulesHaveConditions
    /\ [][RejectedWithoutEffect]_vars

\* a rule form without conditions was just rejected while the knowledge
\* base holds a rule created before, in memory and in the file
C20_RejectedReached ==
    /\ crud_resp = "validation_error"
    /\ Len(rules) = 2
    /\ rules_json = rules
    /\ RulesHaveConditions

\* the ids of the fact list and the value the list gives to an id
FactIdsOf(fs) == {fs[i].id : i \in 1..Len(fs)}

FactsGive(fs, fid, value) == \E i \in 1..Len(fs) : fs[i].id = fid /\ fs[i].value = value

\* the request GET /infer?weights=...&useTrueFacts=true naming no fact
BaselineRequest ==
    [method |-> "GET",
     args |-> [weights |-> <<[colon |-> FALSE, fid |-> "", conf |-> NotANumber]>>,
               useTrueFacts |-> "true"],
     body |-> EmptyMap]

\* C22: after every completed fact create, edit or delete, accepted or
\* rejected, in any sequence, FACT_VALUE maps exactly the ids of the current
\* fact list to their current boolean values, so that the facts infer
\* observes under useTrueFacts are the facts whose value is true now.
C22_BaselineTableCurrent ==
    /\ DOMAIN FACT_VALUE = FactIdsOf(facts)
    /\ \A fid \in DOMAIN FACT_VALUE :
          /\ FACT_VALUE[fid] \in BOOLEAN
          /\ FactsGive(facts, fid, FACT_VALUE[fid])
          /\ ~FactsGive(facts, fid, ~FACT_VALUE[fid])
    /\ w4_observed_ids(w4_parse(BaselineRequest), FACT_VALUE) =
          {fid \in FactIdsOf(facts) : FactsGive(facts, fid, TRUE)}

\* fever was created, its value edited to true and cough, true at load,
\* deleted: the table no longer holds cough and gives fever its new value
C22_EditedThenDeletedReached ==
    /\ crud_resp = "deleted"
    /\ facts = <<Fact("fever", "", TRUE)>>
    /\ FACT_VALUE = [fid \in {"fever"} |-> TRUE]

-----------------------------------------------------------------------------
(* week4: an infer request served by one thread while another thread runs   *)
(* a fact or rule handler (app.run serves each request in a thread of its   *)
(* own).  No lock guards the module globals, so the threads interleave      *)
(* between any two statements: infer steps once per read of a global, the   *)
(* handler once per write.                                                  *)

ConcRequests ==
    {[method |-> "GET", args |-> EmptyMap, body |-> [facts |-> <<"fever">>]],
     [method |-> "GET", args |-> EmptyMap,
      body |-> [facts |-> <<"fever">>, useTrueFacts |-> TRUE]]}

InitConcurrent ==
    /\ PARENT = EmptyMap
    /\ facts \in {<<Fact("cough", "", TRUE)>>,
                  <<Fact("cough", "", FALSE), Fact("fever", "", TRUE)>>}
    /\ facts_json = facts
    /\ FACT_VALUE = w4_fact_value(facts)
    /\ rules \in {<<[id |-> "r1", conditions |-> <<"cough">>, conclusion |-> "flu"]>>,
                  <<[id |-> "r1", conditions |-> <<"cough">>, conclusion |-> "flu"],
                    [id |-> "r2", conditions |-> <<"fever">>, conclusion |-> "flu"]>>}
    /\ rules_json = rules
    /\ crud_resp = "none"
    /\ kb_old = CurrentKb
    /\ req \in ConcRequests
    /\ loc3 = NoneYet /\ resp3 = NoneYet /\ loc4 = NoneYet /\ resp4 = NoneYet
    /\ ipc = "start" /\ fv_read = NoneYet /\ it_idx = 0 /\ it_seen = <<>>
    /\ cpc = "idle" /\ cnew = NoneYet
    /\ obs_conf = EmptyMap
    /\ IdleEval /\ IdleExpand /\ IdleWalk /\ IdleHist

\* what neither thread writes
concFrame == <<PARENT, req, loc3, resp3, kb_old, histVars, evalVars, obs_conf,
               expandVars, walkVars>>

\* infer up to "for rule in rules": the request is parsed, FACT_VALUE is
\* read when useTrueFacts is set, the confidences are built and expanded
ConcInferStart ==
    /\ ipc = "start"
    /\ LET p == w4_parse(req)
           observed == w4_observed_ids(p, FACT_VALUE)
           conf == w4_initial_conf(observed, p.weights)
       IN  /\ fv_read' = IF p.use_true_facts THEN FACT_VALUE ELSE fv_read
           /\ \E order \in Orders(observed) :
                 LET ex == w4_expand_observations(PARENT, conf, order)
                 IN  loc4' = Locals("loop", observed, p.weights, p.use_true_facts,
                                    ex.value, <<>>)
    /\ ipc' = "loop"
    /\ UNCHANGED <<FACT_VALUE, rules, crudVars, resp4, it_idx, it_seen, cpc, cnew,
                   concFrame>>

\* the list iterator of "for rule in rules" hands out rules[it_idx]
ConcInferNext ==
    /\ ipc = "loop"
    /\ it_idx < Len(rules)
    /\ it_seen' = Append(it_seen, rules[it_idx + 1])
    /\ it_idx' = it_idx + 1
    /\ UNCHANGED <<FACT_VALUE, rules, crudVars, loc4, resp4, ipc, fv_read, cpc, cnew,
                   concFrame>>

\* the iterator is exhausted: aggregation, ranking and the response
ConcInferEnd ==
    /\ ipc = "loop"
    /\ it_idx >= Len(rules)
    /\ LET fired == w4_fired(it_seen, loc4.obs_conf)
           agg == w4_aggregate(fired, <<>>)
       IN  /\ loc4' = [loc4 EXCEPT !.reached = IF agg.status = "ok" THEN "return"
                                                ELSE "aggregate",
                                   !.fired = fired]
           /\ resp4' = IF agg.status = "ok"
                       THEN Response(fired, w4_ranked(agg.value), loc4.obs_conf)
                       ELSE Failure(agg.status)
    /\ ipc' = "done"
    /\ UNCHANGED <<FACT_VALUE, rules, crudVars, fv_read, it_idx, it_seen, cpc, cnew,
                   concFrame>>

\* a handler up to the end of its try block: the candidate list is built
\* and validated and, when valid, written to the file; e is how the handler
\* will have ended
ConcHandlerBegins(kind, e) ==
    /\ cpc = "idle"
    /\ IF e.status \in {"created", "updated", "deleted"}
       THEN /\ cnew' = [kind |-> kind, list |-> e.list, status |-> e.status]
            /\ cpc' = "clear"
            /\ crud_resp' = crud_resp
       ELSE /\ cnew' = cnew
            /\ cpc' = "done"
            /\ crud_resp' = e.status
    /\ facts_json' = IF kind = "facts" THEN e.file ELSE facts_json
    /\ rules_json' = IF kind = "rules" THEN e.file ELSE rules_json
    /\ UNCHANGED <<FACT_VALUE, rules, facts, loc4, resp4, ipc, fv_read, it_idx, it_seen,
                   concFrame>>

ConcFactsNew ==
    \E form \in FactForms :
        ConcHandlerBegins("facts", w4_facts_new(facts, facts_json, form))

ConcFactsEdit ==
    \E fid \in CrudFactIds, form \in FactForms :
        ConcHandlerBegins("facts", w4_facts_edit(facts, facts_json, fid, form))

ConcFactsDelete ==
    \E fid \in CrudFactIds :
        ConcHandlerBegins("facts", w4_facts_delete(facts, facts_json, fid))

ConcRulesNew ==
    \E form \in RuleForms :
        ConcHandlerBegins("rules", w4_rules_new(rules, rules_json, form))

ConcRulesEdit ==
    \E rid \in CrudRuleIds, form \in RuleForms :
        ConcHandlerBegins("rules", w4_rules_edit(rules, rules_json, rid, form))

ConcRulesDelete ==
    \E rid \in CrudRuleIds :
        ConcHandlerBegins("rules", w4_rules_delete(rules, rules_json, rid))

\* rules.clear() / facts.clear()
ConcClear ==
    /\ cpc = "clear"
    /\ rules' = IF cnew.kind = "rules" THEN <<>> ELSE rules
    /\ facts' = IF cnew.kind = "facts" THEN <<>> ELSE facts
    /\ cpc' = "extend"
    /\ UNCHANGED <<FACT_VALUE, facts_json, rules_json, crud_resp, loc4, resp4, ipc,
                   fv_read, it_idx, it_seen, cnew, concFrame>>

\* rules.extend(new_rules) / facts.extend(new_facts); a rule handler ends
ConcExtend ==
    /\ cpc = "extend"
    /\ rules' = IF cnew.kind = "rules" THEN rules \o cnew.list ELSE rules
    /\ facts' = IF cnew.kind = "facts" THEN facts \o cnew.list ELSE facts
    /\ cpc' = IF cnew.kind = "facts" THEN "rebuild" ELSE "done"
    /\ crud_resp' = IF cnew.kind = "facts" THEN crud_resp ELSE cnew.status
    /\ UNCHANGED <<FACT_VALUE, facts_json, rules_json, loc4, resp4, ipc, fv_read,
                   it_idx, it_seen, cnew, concFrame>>

\* FACT_VALUE = {...}: the name is bound to a new table; a fact handler ends
ConcRebuild ==
    /\ cpc = "rebuild"
    /\ FACT_VALUE' = w4_fact_value(facts)
    /\ cpc' = "done"
    /\ crud_resp' = cnew.status
    /\ UNCHANGED <<rules, facts, facts_json, rules_json, loc4, resp4, ipc, fv_read,
                   it_idx, it_seen, cnew, concFrame>>

NextConcurrent ==
    \/ ConcInferStart \/ ConcInferNext \/ ConcInferEnd
    \/ ConcFactsNew \/ ConcFactsEdit \/ ConcFactsDelete
    \/ ConcRulesNew \/ ConcRulesEdit \/ ConcRulesDelete
    \/ ConcClear \/ ConcExtend \/ ConcRebuild

SpecConcurrent == InitConcurrent /\ [][NextConcurrent]_vars

\* the rule list and the baseline table after the handler's mutation (those
\* before it when the handler has not begun or has rejected its request)
RulesAfter == IF cnew # NoneYet /\ cnew.kind = "rules" THEN cnew.list ELSE kb_old.rules
BaselineAfter ==
    IF cnew # NoneYet /\ cnew.kind = "facts" THEN w4_fact_value(cnew.list)
    ELSE kb_old.FACT_VALUE

\* C16 (as claimed): an infer call running at the same time as a fact or
\* rule create, edit or delete evaluates against a consistent snapshot: the
\* rules it iterates over and the baseline values it reads are entirely
\* those before the mutation or entirely those after it.  The handlers
\* empty and refill the rule list in place while infer iterates over it.
C16_ConsistentSnapshot ==
    ipc = "done" =>
        /\ it_seen \in {kb_old.rules, RulesAfter}
        /\ fv_read # NoneYet => fv_read \in {kb_old.FACT_VALUE, BaselineAfter}

\* the part of C16 the code satisfies: FACT_VALUE is bound to a new table
\* in one assignment, so the baseline values infer reads are those before
\* or those after a fact handler
C16_BaselineSnapshot ==
    fv_read # NoneYet => fv_read \in {kb_old.FACT_VALUE, BaselineAfter}

\* infer has iterated over an emptied rule list: the knowledge base held a
\* rule before the handler began and holds rules after it, and infer saw none
C16_EmptiedListReached ==
    /\ ipc = "done"
    /\ kb_old.rules # <<>>
    /\ RulesAfter # <<>>
    /\ it_seen = <<>>
    /\ resp4.status = "200" /\ resp4.matched_rules = <<>>

-----------------------------------------------------------------------------
(* Ranges of the numbers in a result record.                                *)

\* every confidence is in [0.0, 1.0] (hundredths), every score in [0.0, 1.0]
\* (units of 1/10000)
InUnitRange(resp) ==
    /\ \A i \in 1..Len(resp.observations) :
          resp.observations[i].confidence >= 0 /\ resp.observations[i].confidence <= One
    /\ \A i \in 1..Len(resp.matched_rules) :
          resp.matched_rules[i].score >= 0 /\ resp.matched_rules[i].score <= One * One
    /\ \A i \in 1..Len(resp.ranked_conclusions) :
          /\ resp.ranked_conclusions[i].score >= 0
          /\ resp.ranked_conclusions[i].score <= One * One

\* C17: in every result of infer, every confidence listed in observations
\* and every score in matched_rules and ranked_conclusions lies in
\* [0.0, 1.0], for any weights (values outside [0,1] included) and any rule
\* certainty.
C17_ResultsInUnitRange ==
    /\ (resp3 # NoneYet /\ ResultReturned(resp3)) => InUnitRange(resp3)
    /\ (resp4 # NoneYet /\ ResultReturned(resp4)) => InUnitRange(resp4)

\* weight 1.5 for the observed concept and certainty 1.5 for the rule on
\* it: confidence 1.0 and score 1.0 in week3's result
C17_OutOfRangeInputsReached ==
    /\ req # NoneYet
    /\ req.body = [facts |-> <<"cough">>, weights |-> [cough |-> Num(150)]]
    /\ rules = <<[id |-> "r1", conditions |-> <<"cough">>, conclusion |-> "flu",
                  certainty |-> 150]>>
    /\ resp3 # NoneYet /\ ResultReturned(resp3)
    /\ [id |-> "cough", confidence |-> One] \in Range(resp3.observations)
    /\ Len(resp3.matched_rules) = 1 /\ resp3.matched_rules[1].score = One * One
    /\ resp3.ranked_conclusions = <<[conclusion |-> "flu", score |-> One * One]>>

-----------------------------------------------------------------------------
(* Frame: what expansion and infer leave alone.                             *)

-----------------------------------------------------------------------------
(* The two copies side by side: both have answered the same request on the  *)
(* same facts, rules and taxonomy.                                          *)

BothAnswered == resp3 # NoneYet /\ resp4 # NoneYet

\* two requests ended alike: both with a response that holds the same three
\* lists, or both with the same exception
SameResult(a, b) ==
    /\ a.status = b.status
    /\ a.matched_rules = b.matched_rules
    /\ a.ranked_conclusions = b.ranked_conclusions
    /\ a.observations = b.observations

\* C21: the two copies of the engine are equivalent: for the same facts,
\* rules and taxonomy and the same request (method, facts, weights,
\* useTrueFacts), infer in week3 and infer in week4 return the same
\* matched_rules, ranked_conclusions and observations.
C21_CopiesEquivalent == BothAnswered => SameResult(resp3, resp4)

\* where the copies do agree: a request neither copy answers (any method
\* but GET), and a GET that ends with nothing observed
C21_AgreeWithoutObservation ==
    (BothAnswered /\ (req.method # "GET" \/
                      (Ran(loc3) /\ Ran(loc4) /\ loc3.observed_ids = {}
                         /\ loc4.observed_ids = {})))
        => SameResult(resp3, resp4)

\* both copies returned a response to one GET request and the responses
\* differ
C21_BothReturnedDifferentReached ==
    /\ BothAnswered
    /\ ResultReturned(resp3) /\ ResultReturned(resp4)
    /\ ~SameResult(resp3, resp4)

\* week3 returned a response to a request that week4 ended with an exception
C21_OnlyWeek3ReturnedReached ==
    /\ BothAnswered
    /\ ResultReturned(resp3) /\ ~ResultReturned(resp4)

====
